---- MODULE Spec2Model ----
(***************************************************************************)
(* A model of spell.hh, the single-header subprocess library: the Spell    *)
(* builder, the launch sequence Spell::do_cast on both platform branches,  *)
(* and the Child operations try_wait, wait, wait_with_output and kill,     *)
(* together with the operating-system objects they act on (processes,      *)
(* pipes and the handle tables of the parent and of each child process).   *)
(***************************************************************************)
EXTENDS Integers, Sequences, FiniteSets, TLC

(***************************************************************************)
(* Bounds of the model.                                                    *)
(***************************************************************************)
\* Capacity, in bytes, of an operating-system pipe buffer.
PipeCap == 2
\* The longest output a modelled program writes to one stream.
MaxOut == 3
\* The largest number of arguments given to a descriptor.
MaxArgs == 2

\* The largest number of environment calls made on a descriptor.
MaxEnvCalls == 3
\* The deepest working directory given to a descriptor.
MaxDepth == 2

\* The longest command line given to from_string.
MaxLen == 5
\* The most bytes of memory after a command line that can be read.
MaxBeyond == 1
\* The Anonymous_Pipe objects of a run of pipe operations.
MaxObjs == 3
\* The OS handles those objects are created with.
MaxHandles == 2
\* The most bytes given to write_all.
MaxCount == 2
\* The most duplicates of the null device and of the standard streams the
\* threads of the parent hold at one time.
MaxDups == 4

\* The launches of one run of the parent, in order.
Slots == {1, 2}

(***************************************************************************)
(* Program constants.                                                      *)
(***************************************************************************)
INVALID_PIPE == -1
\* Child::status_ before any status was cached.
NO_STATUS == -1
\* The exit code of the forked child whose exec failed.
EXEC_FAILED == 127
\* The signal Child::kill sends.
SIGKILL == 9
\* The return value of a fork that failed.
FORK_ERROR == -1

Stdio == {"Default", "Inherit", "Piped", "Null"}

(***************************************************************************)
(* Handles.  Every launch creates up to four pairs of handles: one pair    *)
(* per standard stream and the side channel (input, output) of the fork    *)
(* branch.  fd0, fd1 and fd2 are the standard descriptors of the child     *)
(* process after its dup2 calls.                                           *)
(***************************************************************************)
Ends == <<"in.read", "in.write", "out.read", "out.write", "err.read",
          "err.write", "input", "output", "fd0", "fd1", "fd2">>

EndIx(e) == CHOOSE k \in 1..Len(Ends) : Ends[k] = e

\* The handle value of end e of launch i.
H(i, e) == i * 16 + EndIx(e)

SlotOf(h) == h \div 16

EndOf(h) == Ends[h % 16]

Handles == {H(i, Ends[k]) : i \in Slots, k \in 1..Len(Ends)}

\* The stream a handle end belongs to.
StreamOf(e) ==
  CASE e \in {"in.read", "in.write", "fd0"} -> "in"
    [] e \in {"out.read", "out.write", "fd1"} -> "out"
    [] e \in {"err.read", "err.write", "fd2"} -> "err"
    [] OTHER -> "side"

\* Whether a handle end can be read from (the other ends can be written).
IsReadEnd(e) == e \in {"in.read", "out.read", "err.read", "input", "fd0"}

VARIABLES
  platform,   \* "posix" (fork/exec branch) or "win32" (#ifdef _WIN32)
  ndebug,     \* whether the build defines NDEBUG (assert compiled out)
  spell,      \* the Spell descriptor: program_, args_, env_, working_dir_,
              \* stdout_, stderr_, stdin_
  env_calls,  \* the environment calls made on the descriptor so far, in order
  command_line, \* the string_view given to Spell::from_string
  beyond,     \* the bytes that follow the end of command_line in memory
  child,      \* per launch: the Child object handed to the caller, or NoChild
  proc,       \* per launch: the operating-system process
  open,       \* per process (0 is the parent): the handles it holds open
  pipe,       \* per launch and stream: kind of the pair and buffered bytes
  pc,         \* where the parent is: idle, or blocked inside a library call
  ret,        \* the result of the last completed library call
  hist,       \* per launch: history of what its calls returned
  objs,       \* Anonymous_Pipe objects on their own: the objects, how often
              \* the OS closed each handle, the handles take returned, and
              \* the call of write_all in progress
  statics     \* the process-wide state behind create_null and create_inherit:
              \* the descriptor table of the parent, the function-local
              \* statics of create_null, and the threads inside these calls

vars ==
  <<platform, ndebug, spell, env_calls, command_line, beyond, child, proc, open,
    pipe, pc, ret, hist, objs, statics>>

\* What no launch and no operation on a Child changes.
fixed == <<platform, ndebug, env_calls, command_line, beyond, objs, statics>>

Streams == {"in", "out", "err"}

Procs == {0} \cup Slots

(***************************************************************************)
(* The programs the tests launch, by what they do once started.  A program *)
(* optionally reads one byte of its standard input (blocking until a byte  *)
(* or end-of-stream arrives), then writes its output one byte at a time,   *)
(* then returns its exit code.                                             *)
(***************************************************************************)
Programs == {"i_do_not_exist", "hello_world", "hello_world_stderr", "big_output",
             "echo_stdin_char", "return_number_of_args"}

\* Whether exec (or CreateProcess) finds the program.
Exists(program) == program # "i_do_not_exist"

ReadsStdin(program) == program = "echo_stdin_char"

\* The bytes 1, 2, .., n.
Bytes(n) == [k \in 1..n |-> k]

\* What the program writes to its standard output, given what it read.
WritesOut(program, got) ==
  CASE program = "hello_world" -> Bytes(PipeCap)
    [] program = "big_output" -> Bytes(MaxOut)
    [] program = "echo_stdin_char" -> got
    [] OTHER -> <<>>

\* What the program writes to its standard error.
WritesErr(program) ==
  IF program = "hello_world_stderr" THEN Bytes(PipeCap) ELSE <<>>

\* The value the program's main returns.
ExitCode(program, argc) ==
  IF program = "return_number_of_args" THEN argc ELSE 0

(***************************************************************************)
(* Exit statuses.                                                          *)
(***************************************************************************)
\* The wait status waitpid stores for a process that returned code.
W_EXITCODE(code) == code * 256

\* <sys/wait.h>: the exit code held in bits 8..15 of a wait status.
WEXITSTATUS(status) == (status \div 256) % 256

\* Values an uninitialized int may hold when the code reads it.
Garbage == {NO_STATUS, 0, W_EXITCODE(1)}

Exit_Status(code) == [code |-> code]

success(s) == s.code = 0

\* Child::Child
Child(pid, i, o, e) ==
  [pid_ |-> pid, status_ |-> NO_STATUS, stdin_ |-> i, stdout_ |-> o, stderr_ |-> e]

\* No Child object (an absent result, or a Child that was destroyed).
NoChild == Child(0, INVALID_PIPE, INVALID_PIPE, INVALID_PIPE)

\* An operating-system process: state is none, forked (the child branch of
\* do_cast before exec), running, zombie (terminated, not yet reaped) or
\* reaped; raw is its wait status (its exit code on win32) once terminated.
\* On win32 the parent's process handle is open while the process is running
\* or a zombie, and closed once it is reaped.
\* argv, envp and cwd are the argument vector, the environment and the
\* working directory the process image starts with; block tells whether the
\* launch passed an explicit environment.
NoProc ==
  [state |-> "none", prog |-> "", argc |-> 0, need |-> FALSE, got |-> <<>>,
   nout |-> 0, nerr |-> 0, raw |-> 0, how |-> "", argv |-> <<>>, envp |-> {},
   block |-> FALSE, cwd |-> <<>>]

NoPipe == [kind |-> "none", buf |-> <<>>]

Idle == [op |-> "idle", slot |-> 0, entry |-> "", pid |-> 0]

\* The result of a library call: ok is has_value () of an optional result and
\* the boolean of kill; os tells whether the call invoked the OS wait
\* primitive; alive tells whether the child was alive when the call was made;
\* over tells whether the call read memory at or after the end of its input;
\* threw tells whether the call ended by an exception instead of a return;
\* failed tells whether an OS read or write the call made reported failure.
NoRet ==
  [op |-> "none", slot |-> 0, ok |-> FALSE, code |-> 0, out |-> <<>>,
   err |-> <<>>, os |-> FALSE, alive |-> FALSE, over |-> FALSE, threw |-> FALSE,
   failed |-> FALSE]

\* History of a launch: used (the launch happened), entry (its entry point),
\* waits (the calls of Child::wait that returned, counted up to 2), first
\* (the code the first of them returned) and wrote (the bytes the pipe of the
\* child's stdin accepted from the parent, in the order of the writes).
NoHist == [used |-> FALSE, entry |-> "", waits |-> 0, first |-> 0, wrote |-> <<>>]

\* The Anonymous_Pipe objects before any operation on them: the first
\* MaxHandles objects were made by Anonymous_Pipe::create and own one OS
\* handle each, the others are not constructed yet.  No handle was closed or
\* taken, and no write_all is in progress.
\* The threads of the parent that launch programs.
Threads == {1, 2}

\* The process before any launch: stdin, stdout and stderr are open, the
\* statics s and h of create_null are not initialized, once_flag is not set,
\* no exit handler is registered, no thread is inside create_null, and no
\* thread holds a duplicate; made counts the calls that returned, up to two
\* of each kind.
NewStatics ==
  [fds |-> {0, 1, 2},
   guard |-> "uninit",
   h |-> INVALID_PIPE,
   once_flag |-> FALSE,
   atexit |-> 0,
   opens |-> 0,
   at |-> [t \in Threads |-> "idle"],
   held |-> [t \in Threads |-> {}],
   made |-> [null |-> 0, inherit |-> 0],
   exited |-> FALSE]

NewObjs ==
  [obj |-> [o \in 1..MaxObjs |->
              IF o <= MaxHandles THEN [state |-> "live", inner_ |-> o]
              ELSE [state |-> "none", inner_ |-> INVALID_PIPE]],
   closes |-> [h \in 1..MaxHandles |-> 0],
   taken |-> {},
   call |-> [op |-> "idle", o |-> 0, size |-> 1, total |-> 0, data |-> 0, count |-> 0,
             sent |-> <<>>, calls |-> 0, result |-> FALSE]]

(***************************************************************************)
(* The operating system: who holds which end of a pipe.                    *)
(***************************************************************************)
\* The processes holding a read end (rd) or a write end of stream s of launch i.
Holders(i, s, rd) ==
  {p \in Procs : \E h \in open[p] :
      SlotOf(h) = i /\ StreamOf(EndOf(h)) = s /\ IsReadEnd(EndOf(h)) = rd}

\* Pipes made by pipe () in place of pipe2 (p, O_CLOEXEC).
CloseOnExec_never(h) == FALSE

\* pipe2 (p, O_CLOEXEC) marks both ends close-on-exec; dup () does not.
CloseOnExec(h) ==
  StreamOf(EndOf(h)) = "side" \/ pipe[SlotOf(h)][StreamOf(EndOf(h))].kind = "Piped"

\* The first launch among S that has not happened yet (0 when none is left).
FreeSlot(S) ==
  IF \E i \in S : ~hist[i].used
    THEN CHOOSE i \in S : ~hist[i].used /\ \A j \in S : j < i => hist[j].used
    ELSE 0

(***************************************************************************)
(* Strings are sequences of symbols.  The name of a program of the tests   *)
(* is written as one symbol.                                               *)
(***************************************************************************)
\* The terminator of a C string.
NUL == "NUL"

\* std::string::find (c): the 0-based position of the first c in str.  Every
\* string it is applied to holds the character (an entry of environ has '=').
Find(str, c) ==
  IF \E k \in 1..Len(str) : str[k] = c
    THEN (CHOOSE k \in 1..Len(str) : str[k] = c /\ \A j \in 1..(k - 1) : str[j] # c) - 1
    ELSE Len(str)

(***************************************************************************)
(* detail::Env_Var: one buffer KEY=VALUE and the position of its '='.      *)
(***************************************************************************)
\* Env_Var (data)
Env_Var_data(data) == [data_ |-> data, eq_ |-> Find(data, "=")]

\* Env_Var (key, value)
Env_Var(key, value) == [data_ |-> key \o <<"=">> \o value, eq_ |-> Len(key)]

\* Env_Var::key ()
Env_Var_key(v) == SubSeq(v.data_, 1, v.eq_)

\* Env_Var::value ()
Env_Var_value(v) == SubSeq(v.data_, v.eq_ + 2, Len(v.data_))

\* Env_Var::value (str) keeping the old value in front of the new one.
Env_Var_append_value(v, str) == [v EXCEPT !.data_ = @ \o str]

\* Env_Var::value (str)
Env_Var_set_value(v, str) == [v EXCEPT !.data_ = SubSeq(@, 1, v.eq_ + 1) \o str]

\* Env_Var::key (str)
Env_Var_set_key(v, str) ==
  [data_ |-> str \o SubSeq(v.data_, v.eq_ + 1, Len(v.data_)), eq_ |-> Len(str)]

\* Env_Var::unwrap ()
unwrap(v) == v.data_

(***************************************************************************)
(* Env: an unordered_set of Env_Var hashed and compared by key.            *)
(***************************************************************************)
\* The environment of the parent process (char **environ), unique by key.
environ == {<<"PATH", "=", "/bin">>, <<"HOME", "=", "/root">>}

\* Env_Set::find (key): the elements whose key is key (at most one).
Env_find(data, key) == {v \in data : Env_Var_key(v) = key}

\* Env_Set::emplace: no insertion when an element with the key exists.
Env_emplace(data, v) == IF Env_find(data, Env_Var_key(v)) # {} THEN data ELSE data \cup {v}

\* Env::Env loading the environment whatever load says.
Env_loaded(load) == {Env_Var_data(e) : e \in environ}

\* Env::Env (load)
Env(load) == IF load THEN {Env_Var_data(e) : e \in environ} ELSE {}

\* Env::get
Env_get(data, key) ==
  IF Env_find(data, key) # {}
    THEN Env_Var_value(CHOOSE v \in Env_find(data, key) : TRUE)
    ELSE <<>>

\* Env::set
Env_set(data, key, value) ==
  IF Env_find(data, key) # {}
    THEN LET it == CHOOSE v \in Env_find(data, key) : TRUE
         IN  (data \ {it}) \cup {Env_Var_set_value(it, value)}
    ELSE Env_emplace(data, Env_Var(key, value))

\* Env::remove
Env_remove(data, key) == data \ Env_find(data, key)

\* Env::rename: a copy of the variable is given the new key, the variable is
\* erased and the copy inserted (std::unordered_set::insert inserts nothing
\* when an element with the key exists).
Env_rename(data, key, new_key) ==
  IF Env_find(data, key) # {}
    THEN LET it == CHOOSE v \in Env_find(data, key) : TRUE
         IN  Env_emplace(data \ {it}, Env_Var_set_key(it, new_key))
    ELSE data

\* Env::clear
Env_clear(data) == {}

\* std::optional<Env> holding nothing.
NoEnv == [has_value |-> FALSE, data_ |-> {}]

\* env_.emplace (false) in place of env_.emplace (load).
Materialized_empty(e, load) ==
  IF e.has_value THEN e ELSE [has_value |-> TRUE, data_ |-> {}]

\* env_.emplace (load) when env_ holds nothing, as the builder calls do.
Materialized(e, load) ==
  IF e.has_value THEN e ELSE [has_value |-> TRUE, data_ |-> Env(load)]

(***************************************************************************)
(* Paths are sequences of components below the root directory.             *)
(***************************************************************************)
\* std::filesystem::current_path () of the parent process.
current_path == <<"home">>

\* std::filesystem::weakly_canonical of an absolute path none of whose
\* components is a symbolic link: "." is skipped and ".." drops the
\* component before it (the parent of the root is the root).
RECURSIVE weakly_canonical_from(_, _)
weakly_canonical_from(done, rest) ==
  IF rest = <<>> THEN done
  ELSE IF Head(rest) = "." THEN weakly_canonical_from(done, Tail(rest))
  ELSE IF Head(rest) = ".."
    THEN weakly_canonical_from(SubSeq(done, 1, Len(done) - 1), Tail(rest))
  ELSE weakly_canonical_from(Append(done, Head(rest)), Tail(rest))

weakly_canonical(path) == weakly_canonical_from(<<>>, path)

(***************************************************************************)
(* What a launch hands to the new process.                                 *)
(***************************************************************************)
\* The C string behind std::string::data (): the symbols before the first NUL.
CStr(str) == SubSeq(str, 1, Find(str, NUL))

\* The _WIN32 branch: command_line, the program with " " and every argument
\* appended.
RECURSIVE JoinArgs(_, _)
JoinArgs(line, args) ==
  IF args = <<>> THEN line ELSE JoinArgs(line \o <<" ">> \o Head(args), Tail(args))

\* The argument vector the C runtime of a _WIN32 child builds from its
\* command line: arguments are separated by spaces outside double quotes,
\* and the double quotes are removed.
RECURSIVE ParseArgs(_, _, _, _)
ParseArgs(line, cur, inarg, quoted) ==
  IF line = <<>> THEN (IF inarg THEN <<cur>> ELSE <<>>)
  ELSE IF Head(line) = "\"" THEN ParseArgs(Tail(line), cur, TRUE, ~quoted)
  ELSE IF Head(line) = " " /\ ~quoted
    THEN (IF inarg THEN <<cur>> ELSE <<>>) \o ParseArgs(Tail(line), <<>>, FALSE, FALSE)
  ELSE ParseArgs(Tail(line), Append(cur, Head(line)), TRUE, quoted)

\* The argument vector of the new process: p_args on the fork branch.
Argv(d) ==
  IF platform = "posix"
    THEN <<CStr(<<d.program_>>)>> \o [k \in 1..Len(d.args_) |-> CStr(d.args_[k])]
    ELSE ParseArgs(JoinArgs(<<d.program_>>, d.args_), <<>>, FALSE, FALSE)

\* The _WIN32 branch: environment, every variable followed by a NUL.
RECURSIVE EnvBlock(_)
EnvBlock(data) ==
  IF data = {} THEN <<>>
  ELSE LET v == CHOOSE w \in data : TRUE
       IN  unwrap(v) \o <<NUL>> \o EnvBlock(data \ {v})

\* The variables CreateProcessA reads from an environment block: strings
\* ended by a NUL, up to the first empty string.
RECURSIVE ParseBlock(_, _)
ParseBlock(block, cur) ==
  IF block = <<>> THEN {}
  ELSE IF Head(block) # NUL THEN ParseBlock(Tail(block), Append(cur, Head(block)))
  ELSE IF cur = <<>> THEN {}
  ELSE {cur} \cup ParseBlock(Tail(block), <<>>)

\* The environment of the new process: p_envs (the block on _WIN32) when the
\* descriptor holds an environment, the parent's environment otherwise.
Envp(d) ==
  IF ~d.env_.has_value THEN environ
  ELSE IF platform = "posix" THEN {CStr(unwrap(v)) : v \in d.env_.data_}
  ELSE ParseBlock(EnvBlock(d.env_.data_) \o <<NUL>>, <<>>)

\* The process a launch of descriptor d starts.  Neither branch of do_cast
\* changes directory or passes one: the process starts in the parent's.
NewProc(state, d) ==
  [NoProc EXCEPT !.state = state, !.prog = d.program_, !.argv = Argv(d),
                 !.argc = Len(Argv(d)) - 1, !.envp = Envp(d),
                 !.block = d.env_.has_value,
                 !.cwd = current_path, !.need = ReadsStdin(d.program_)]

(***************************************************************************)
(* The builder.                                                            *)
(***************************************************************************)
\* Spell::Spell
NewSpell(program) ==
  [program_ |-> program, args_ |-> <<>>, env_ |-> NoEnv,
   working_dir_ |-> current_path, stdout_ |-> "Default",
   stderr_ |-> "Default", stdin_ |-> "Default"]

\* The parent before its first launch, holding a new descriptor of one of
\* the programs P, and a command line of L followed in memory by one of M.
Boot(P, L, M) ==
  /\ platform \in {"posix", "win32"}
  /\ ndebug \in BOOLEAN
  /\ platform = "win32" => ~ndebug
  /\ spell \in {NewSpell(p) : p \in P}
  /\ env_calls = <<>>
  /\ command_line \in L
  /\ beyond \in M
  /\ child = [i \in Slots |-> NoChild]
  /\ proc = [i \in Slots |-> NoProc]
  /\ open = [p \in Procs |-> {}]
  /\ pipe = [i \in Slots |-> [s \in Streams \cup {"side"} |-> NoPipe]]
  /\ pc = Idle
  /\ ret = NoRet
  /\ hist = [i \in Slots |-> NoHist]
  /\ objs = NewObjs
  /\ statics = NewStatics

Init == Boot(Programs, {<<>>}, {<<NUL>>})

\* The builder calls are made before the first launch of the descriptor.
CanBuild == pc.op = "idle" /\ \A i \in Slots : ~hist[i].used

\* A new descriptor replaces the current one.
Spell_new(program) ==
  /\ CanBuild
  /\ spell' = NewSpell(program)
  /\ UNCHANGED <<fixed, child, proc, open, pipe, pc, ret, hist>>

\* Spell::arg
arg(a) ==
  /\ CanBuild
  /\ Len(spell.args_) < MaxArgs
  /\ spell' = [spell EXCEPT !.args_ = Append(@, a)]
  /\ UNCHANGED <<fixed, child, proc, open, pipe, pc, ret, hist>>

\* Spell::set_stdout
set_stdout(cfg) ==
  /\ CanBuild
  /\ spell' = [spell EXCEPT !.stdout_ = cfg]
  /\ UNCHANGED <<fixed, child, proc, open, pipe, pc, ret, hist>>

\* Spell::set_stderr
set_stderr(cfg) ==
  /\ CanBuild
  /\ spell' = [spell EXCEPT !.stderr_ = cfg]
  /\ UNCHANGED <<fixed, child, proc, open, pipe, pc, ret, hist>>

\* Spell::set_stdin
set_stdin(cfg) ==
  /\ CanBuild
  /\ spell' = [spell EXCEPT !.stdin_ = cfg]
  /\ UNCHANGED <<fixed, child, proc, open, pipe, pc, ret, hist>>

(***************************************************************************)
(* Spell::from_string.  The string_view command_line covers the positions  *)
(* begin .. end - 1 of the memory text (the characters of the command line *)
(* followed by the bytes beyond it); end is 0 once a remove_prefix longer  *)
(* than the view has wrapped its size around, so that no iterator reaches  *)
(* the end any more.  n1 is the position after the last character of the   *)
(* command line.  A read of a position that holds no readable byte is a    *)
(* fault: the process is terminated.                                       *)
(***************************************************************************)
\* The for loop of the lambda chomp, from iterator it on: the token chomped
\* and the iterator when the loop is left.
RECURSIVE chomp_loop(_, _, _, _, _, _, _)
chomp_loop(text, n1, end, it, in_string, chomped, over) ==
  IF it = end
    THEN [it |-> it, chomped |-> chomped, over |-> over, fault |-> FALSE]
  ELSE IF it > Len(text)
    THEN [it |-> it, chomped |-> chomped, over |-> TRUE, fault |-> TRUE]
  ELSE
    LET c == text[it]
        o == over \/ it >= n1
    IN  CASE c = "\\" ->
               \* ++it; if (it == end) break; leaves the switch only, and
               \* the ++it of the loop then steps over the end.
               IF it + 1 = end
                 THEN chomp_loop(text, n1, end, it + 2, in_string, chomped, o)
               ELSE IF it + 1 > Len(text)
                 THEN [it |-> it + 1, chomped |-> chomped, over |-> TRUE, fault |-> TRUE]
               ELSE chomp_loop(text, n1, end, it + 2, in_string,
                               Append(chomped, text[it + 1]), o \/ it + 1 >= n1)
          [] c \in {"'", "\""} ->
               IF in_string = ""
                 THEN chomp_loop(text, n1, end, it + 1, c, chomped, o)
               ELSE IF c = in_string
                 THEN chomp_loop(text, n1, end, it + 1, "", chomped, o)
               ELSE chomp_loop(text, n1, end, it + 1, in_string, Append(chomped, c), o)
          [] c = " " ->
               IF in_string = ""
                 THEN [it |-> it, chomped |-> chomped, over |-> o, fault |-> FALSE]
               ELSE chomp_loop(text, n1, end, it + 1, in_string, Append(chomped, " "), o)
          [] OTHER ->
               chomp_loop(text, n1, end, it + 1, in_string, Append(chomped, c), o)

\* while (command_line.front () == ' ') command_line.remove_prefix (1): front
\* reads the byte at begin, also when the view is empty.
RECURSIVE strip_front(_, _, _, _, _)
strip_front(text, n1, begin, end, over) ==
  IF begin > Len(text)
    THEN [begin |-> begin, end |-> end, over |-> TRUE, fault |-> TRUE]
  ELSE IF text[begin] = " "
    THEN strip_front(text, n1, begin + 1, IF begin = end THEN 0 ELSE end,
                     over \/ begin >= n1)
  ELSE [begin |-> begin, end |-> end, over |-> over \/ begin >= n1, fault |-> FALSE]

\* One call of the lambda chomp on the view begin .. end - 1.
chomp(text, n1, begin, end) ==
  LET r == chomp_loop(text, n1, end, begin, "", <<>>, FALSE)
      f == strip_front(text, n1, r.it, IF end # 0 /\ r.it > end THEN 0 ELSE end, r.over)
  IN  IF r.fault
        THEN [chomped |-> r.chomped, begin |-> begin, end |-> end, over |-> TRUE,
              fault |-> TRUE]
        ELSE [chomped |-> r.chomped, begin |-> f.begin, end |-> f.end, over |-> f.over,
              fault |-> f.fault]

\* while (!(arg = chomp ()).empty ()) spell.arg (arg)
RECURSIVE chomp_args(_, _, _, _, _, _)
chomp_args(text, n1, begin, end, args, over) ==
  LET c == chomp(text, n1, begin, end)
  IN  IF c.fault THEN [args |-> args, over |-> TRUE, fault |-> TRUE]
      ELSE IF c.chomped = <<>> THEN [args |-> args, over |-> over \/ c.over, fault |-> FALSE]
      ELSE chomp_args(text, n1, c.begin, c.end, Append(args, c.chomped), over \/ c.over)

\* The program and the arguments of the descriptor from_string builds of
\* line when the bytes mem follow it in memory.
from_string_of(line, mem) ==
  LET text == line \o mem
      n1 == Len(line) + 1
      c == chomp(text, n1, 1, n1)
      a == chomp_args(text, n1, c.begin, c.end, <<>>, c.over)
  IN  IF c.fault
        THEN [program_ |-> c.chomped, args_ |-> <<>>, over |-> TRUE, fault |-> TRUE]
        ELSE [program_ |-> c.chomped, args_ |-> a.args, over |-> a.over, fault |-> a.fault]

\* Spell::from_string (command_line)
from_string ==
  LET r == from_string_of(command_line, beyond)
  IN  /\ pc.op = "idle"
      /\ ret.op = "none"
      /\ \A i \in Slots : ~hist[i].used
      /\ spell' = IF r.fault THEN spell
                  ELSE [NewSpell(r.program_) EXCEPT !.args_ = r.args_]
      /\ ret' = [NoRet EXCEPT !.op = "from_string", !.ok = ~r.fault, !.over = r.over]
      /\ UNCHANGED <<fixed, child, proc, open, pipe, pc, hist>>

\* Spell::get_args: the caller assigns a through the mutable reference to
\* the k-th argument.
get_args(k, a) ==
  /\ CanBuild
  /\ k \in 1..Len(spell.args_)
  /\ spell' = [spell EXCEPT !.args_[k] = a]
  /\ UNCHANGED <<fixed, child, proc, open, pipe, pc, ret, hist>>

\* An environment call made on the descriptor.
EnvCall(op, key, val) == [op |-> op, key |-> key, val |-> val]

\* Spell::env
env(key, val) ==
  /\ CanBuild
  /\ Len(env_calls) < MaxEnvCalls
  /\ spell' = [spell EXCEPT !.env_ =
                 [Materialized(@, TRUE) EXCEPT !.data_ = Env_set(@, key, val)]]
  /\ env_calls' = Append(env_calls, EnvCall("set", key, val))
  /\ UNCHANGED <<platform, ndebug, command_line, beyond, objs, statics, child, proc, open, pipe,
                 pc, ret, hist>>

\* The loop of Spell::envs over the pairs vars.
RECURSIVE Env_set_all(_, _)
Env_set_all(data, pairs) ==
  IF pairs = <<>> THEN data
  ELSE Env_set_all(Env_set(data, Head(pairs)[1], Head(pairs)[2]), Tail(pairs))

\* Spell::envs
envs(pairs) ==
  /\ CanBuild
  /\ Len(env_calls) + Len(pairs) <= MaxEnvCalls
  /\ spell' = [spell EXCEPT !.env_ =
                 [Materialized(@, TRUE) EXCEPT !.data_ = Env_set_all(@, pairs)]]
  /\ env_calls' = env_calls \o
                    [k \in 1..Len(pairs) |-> EnvCall("set", pairs[k][1], pairs[k][2])]
  /\ UNCHANGED <<platform, ndebug, command_line, beyond, objs, statics, child, proc, open, pipe,
                 pc, ret, hist>>

\* Spell::env_clear
env_clear ==
  /\ CanBuild
  /\ Len(env_calls) < MaxEnvCalls
  /\ spell' = [spell EXCEPT !.env_ =
                 IF ~@.has_value THEN Materialized(@, FALSE)
                 ELSE [@ EXCEPT !.data_ = Env_clear(@)]]
  /\ env_calls' = Append(env_calls, EnvCall("clear", <<>>, <<>>))
  /\ UNCHANGED <<platform, ndebug, command_line, beyond, objs, statics, child, proc, open, pipe,
                 pc, ret, hist>>

\* Spell::env_remove
env_remove(key) ==
  /\ CanBuild
  /\ Len(env_calls) < MaxEnvCalls
  /\ spell' = [spell EXCEPT !.env_ =
                 [Materialized(@, TRUE) EXCEPT !.data_ = Env_remove(@, key)]]
  /\ env_calls' = Append(env_calls, EnvCall("remove", key, <<>>))
  /\ UNCHANGED <<platform, ndebug, command_line, beyond, objs, statics, child, proc, open, pipe,
                 pc, ret, hist>>

\* Spell::get_envs () followed by Env::get (key) on the map it returns: the
\* descriptor's environment is made (loaded from the process) when absent.
get_envs(key) ==
  /\ CanBuild
  /\ Len(env_calls) < MaxEnvCalls
  /\ spell' = [spell EXCEPT !.env_ = Materialized(@, TRUE)]
  /\ env_calls' = Append(env_calls, EnvCall("get", key, <<>>))
  /\ ret' = [NoRet EXCEPT !.op = "get_envs",
                          !.out = Env_get(Materialized(spell.env_, TRUE).data_, key)]
  /\ UNCHANGED <<platform, ndebug, command_line, beyond, objs, statics, child, proc, open, pipe,
                 pc, hist>>

\* The map const get_envs returns were it made as the mutable overload makes it.
get_envs_const_loaded(e) == Materialized(e, TRUE).data_

\* The map Spell::get_envs () const returns: Env::empty_env () (made by
\* Env {false}) when the descriptor's environment is absent.
get_envs_const_of(e) == IF ~e.has_value THEN Env(FALSE) ELSE e.data_

\* Spell::get_envs () const followed by Env::get (key).
get_envs_const(key) ==
  /\ CanBuild
  /\ ret' = [NoRet EXCEPT !.op = "get_envs_const",
                          !.out = Env_get(get_envs_const_of(spell.env_), key)]
  /\ UNCHANGED <<fixed, spell, child, proc, open, pipe, pc, hist>>

\* Spell::get_envs ().rename (key, new_key)
rename(key, new_key) ==
  /\ CanBuild
  /\ Len(env_calls) < MaxEnvCalls
  /\ spell' = [spell EXCEPT !.env_ =
                 [Materialized(@, TRUE) EXCEPT !.data_ = Env_rename(@, key, new_key)]]
  /\ env_calls' = Append(env_calls, EnvCall("rename", key, new_key))
  /\ UNCHANGED <<platform, ndebug, command_line, beyond, objs, statics, child, proc, open, pipe,
                 pc, ret, hist>>

\* Spell::current_dir: dir is absolute or relative, with its components.
current_dir(dir) ==
  /\ CanBuild
  /\ Len(spell.working_dir_) + Len(dir.parts) <= MaxDepth \/ dir.absolute
  /\ spell' = [spell EXCEPT !.working_dir_ =
                 IF dir.absolute THEN dir.parts
                 ELSE weakly_canonical(@ \o dir.parts)]
  /\ UNCHANGED <<fixed, child, proc, open, pipe, pc, ret, hist>>

(***************************************************************************)
(* Spell::do_cast.                                                         *)
(***************************************************************************)
\* cast and cast_status pass Stdio::Inherit to do_cast, cast_output Stdio::Piped.
DefaultOf(entry) == IF entry = "cast_output" THEN "Piped" ELSE "Inherit"

\* set_pipe resolving Default to Inherit whatever the entry point.
set_pipe_inherit(cfg, default_cfg) == IF cfg = "Default" THEN "Inherit" ELSE cfg

\* The lambda set_pipe of do_cast: the configuration the stream is launched
\* with (the lambda also stores it in the descriptor's member, see Cast).
set_pipe(cfg, default_cfg) == IF cfg = "Default" THEN default_cfg ELSE cfg

\* The handles one launch creates: three stream pairs and the side channel.
Created(i) == {H(i, Ends[k]) : k \in 1..8}

\* do_cast without the drops of the child's ends in the parent.
ChildSide_kept(i) == {}

\* The ends do_cast drops in the parent right after the spawn.
ChildSide(i) == {H(i, "in.read"), H(i, "out.write"), H(i, "err.write")}

\* The ends a Child owns.
ParentSide(i) == {H(i, "in.write"), H(i, "out.read"), H(i, "err.read")}

\* Child::wait without the drop of stdin_.
WaitKeep(c) == c

\* Anonymous_Pipe::drop, as Child::wait applies it to stdin_.
WaitDrop(c) == [c EXCEPT !.stdin_ = INVALID_PIPE]

\* The handles a change of a Child object closed.
Closed(before, after) ==
  {h \in {before.stdin_, before.stdout_, before.stderr_} :
      h # INVALID_PIPE /\ h \notin {after.stdin_, after.stdout_, after.stderr_}}

\* The pipes of launch i, as the three set_pipe calls create them.
NewPipes(i, o, e, n, side) ==
  [pipe EXCEPT ![i] = [out |-> [kind |-> o, buf |-> <<>>],
                       err |-> [kind |-> e, buf |-> <<>>],
                       in |-> [kind |-> n, buf |-> <<>>],
                       side |-> [kind |-> side, buf |-> <<>>]]]

\* do_cast returned the Child c to its entry point: cast hands it to the
\* caller, cast_status and cast_output go on to wait on it (a fresh Child has
\* no cached status, so wait drops stdin_ and blocks in the OS wait).
Entered(i, entry, c, table) ==
  IF entry = "cast"
    THEN /\ child' = [child EXCEPT ![i] = c]
         /\ open' = table
         /\ pc' = Idle
         /\ ret' = [NoRet EXCEPT !.op = "cast", !.slot = i, !.ok = TRUE]
    ELSE /\ child' = [child EXCEPT ![i] = WaitDrop(c)]
         /\ open' = [table EXCEPT ![0] = @ \ Closed(c, WaitDrop(c))]
         /\ pc' = [Idle EXCEPT !.op = "wait", !.slot = i, !.entry = entry]
         /\ ret' = ret

\* The fork branch of do_cast up to the parent's read of the side channel:
\* the three set_pipe calls, the side channel, fork (which may fail), and in
\* the parent the drops of output and of the child's ends.
CastPosix(entry, S) ==
  LET i == FreeSlot(S)
      o == set_pipe(spell.stdout_, DefaultOf(entry))
      e == set_pipe(spell.stderr_, DefaultOf(entry))
      n == set_pipe(spell.stdin_, DefaultOf(entry))
  IN  /\ platform = "posix"
      /\ pc.op = "idle"
      /\ i # 0
      /\ spell' = [spell EXCEPT !.stdout_ = o, !.stderr_ = e, !.stdin_ = n]
      /\ pipe' = NewPipes(i, o, e, n, "Piped")
      /\ hist' = [hist EXCEPT ![i].used = TRUE, ![i].entry = entry]
      /\ \E forked \in BOOLEAN :
           /\ proc' = [proc EXCEPT ![i] =
                         IF forked
                           THEN NewProc("forked", spell)
                           ELSE NoProc]
           /\ open' = [open EXCEPT
                         ![0] = (@ \cup Created(i)) \ ({H(i, "output")} \cup ChildSide(i)),
                         ![i] = IF forked THEN open[0] \cup Created(i) ELSE {}]
           /\ pc' = [Idle EXCEPT !.op = "do_cast", !.slot = i, !.entry = entry,
                                 !.pid = IF forked THEN i ELSE FORK_ERROR]
      /\ UNCHANGED <<fixed, child, ret>>

\* The bytes of the error code the child writes to the side channel.
ErrnoBytes == <<2, 0, 0, 0>>

\* The child branch of do_cast: dup2 and drop of the three pairs, then exec.
\* exec keeps the descriptors that are not close-on-exec; when it fails the
\* child writes errno to the side channel inside an assert, and exits.
ChildExec(i) ==
  /\ proc[i].state = "forked"
  /\ IF Exists(proc[i].prog)
       THEN /\ proc' = [proc EXCEPT ![i].state = "running"]
            /\ open' = [open EXCEPT ![i] =
                          {H(i, "fd0"), H(i, "fd1"), H(i, "fd2")}
                            \cup {h \in @ : SlotOf(h) # i /\ ~CloseOnExec(h)}]
            /\ pipe' = pipe
       ELSE /\ proc' = [proc EXCEPT ![i].state = "zombie",
                                    ![i].raw = W_EXITCODE(EXEC_FAILED),
                                    ![i].how = "exit"]
            /\ open' = [open EXCEPT ![i] = {}]
            /\ pipe' = IF ndebug THEN pipe
                       ELSE [pipe EXCEPT ![i].side.buf = ErrnoBytes]
  /\ UNCHANGED <<fixed, spell, child, pc, ret, hist>>

\* The parent branch of do_cast from the read of the side channel on.  The
\* read returns once a byte is buffered or no process holds the write end;
\* or the OS read fails (a signal interrupts it), Anonymous_Pipe::read
\* returns std::nullopt and value () throws std::bad_optional_access out of
\* do_cast and its entry point, the destructors closing every handle of the
\* launch.
CastRead ==
  LET i == pc.slot
      n == Len(pipe[i].side.buf)
      c == Child(pc.pid, H(i, "in.write"), H(i, "out.read"), H(i, "err.read"))
  IN  /\ pc.op = "do_cast"
      /\ \/ /\ n > 0 \/ Holders(i, "side", FALSE) = {}
            /\ pipe' = [pipe EXCEPT ![i].side.buf = <<>>]
            /\ IF n = 4
                 THEN /\ open' = [open EXCEPT
                                    ![0] = @ \ ({H(i, "input")} \cup ParentSide(i))]
                      /\ pc' = Idle
                      /\ ret' = [NoRet EXCEPT !.op = pc.entry, !.slot = i]
                      /\ child' = child
                 ELSE Entered(i, pc.entry, c, [open EXCEPT ![0] = @ \ {H(i, "input")}])
         \/ /\ pipe' = pipe
            /\ open' = [open EXCEPT ![0] = @ \ ({H(i, "input")} \cup ParentSide(i))]
            /\ pc' = Idle
            /\ ret' = [NoRet EXCEPT !.op = pc.entry, !.slot = i, !.threw = TRUE]
            /\ child' = child
      /\ UNCHANGED <<fixed, spell, proc, hist>>

\* The _WIN32 branch of do_cast: the three set_pipe calls, CreateProcessA
\* (which may fail), and the drops of the child's ends.  When CreateProcessA
\* fails the destructors of the Pipes close every handle of the launch.
CastWin32(entry, S) ==
  LET i == FreeSlot(S)
      o == set_pipe(spell.stdout_, DefaultOf(entry))
      e == set_pipe(spell.stderr_, DefaultOf(entry))
      n == set_pipe(spell.stdin_, DefaultOf(entry))
      c == Child(i, H(i, "in.write"), H(i, "out.read"), H(i, "err.read"))
  IN  /\ platform = "win32"
      /\ pc.op = "idle"
      /\ i # 0
      /\ spell' = [spell EXCEPT !.stdout_ = o, !.stderr_ = e, !.stdin_ = n]
      /\ pipe' = NewPipes(i, o, e, n, "none")
      /\ hist' = [hist EXCEPT ![i].used = TRUE, ![i].entry = entry]
      /\ \E created \in IF Exists(spell.program_) THEN BOOLEAN ELSE {FALSE} :
           IF created
             THEN /\ proc' = [proc EXCEPT ![i] =
                                NewProc("running", spell)]
                  /\ Entered(i, entry, c,
                             [open EXCEPT ![0] = @ \cup ParentSide(i),
                                          ![i] = {H(i, "fd0"), H(i, "fd1"), H(i, "fd2")}])
             ELSE /\ proc' = proc
                  /\ open' = open
                  /\ child' = child
                  /\ pc' = Idle
                  /\ ret' = [NoRet EXCEPT !.op = entry, !.slot = i]
      /\ UNCHANGED fixed

(***************************************************************************)
(* Child.                                                                  *)
(***************************************************************************)
\* The bytes buffered in the pipe behind handle h (none for an invalid
\* handle and for a stream that is no pipe).
Buffered(h) ==
  IF h = INVALID_PIPE THEN <<>>
  ELSE IF pipe[SlotOf(h)][StreamOf(EndOf(h))].kind # "Piped" THEN <<>>
  ELSE pipe[SlotOf(h)][StreamOf(EndOf(h))].buf

\* read_all with a single read of one byte in place of the buffered count.
read_all_short(buffered) == SubSeq(buffered, 1, IF Len(buffered) > 0 THEN 1 ELSE 0)

\* Anonymous_Pipe::read_all: the bytes it leaves in out, given the bytes
\* buffered (the count FIONREAD reports, then one read of that many bytes).
read_all(buffered) == SubSeq(buffered, 1, Len(buffered))

\* The pipes once read_all took what was buffered behind handle h.
Drained(pipes, h) ==
  IF h = INVALID_PIPE THEN pipes
  ELSE [pipes EXCEPT ![SlotOf(h)][StreamOf(EndOf(h))].buf =
          SubSeq(@, Len(read_all(Buffered(h))) + 1, Len(@))]

\* The processes a pid designates for waitpid and kill (-1: every child).
Designated(pid) == IF pid = FORK_ERROR THEN Slots ELSE {pid} \cap Slots

Alive(j) == proc[j].state \in {"forked", "running"}

\* The status Child::wait caches in status_ on the fork branch: the status
\* the OS wait stored.  (The _WIN32 branch of wait stores nothing.)
WaitCache(c, status) ==
  IF platform = "posix" THEN [c EXCEPT !.status_ = status] ELSE c

\* The code of the Exit_Status Child::wait returns for a status.
WaitCode(status) == IF platform = "posix" THEN WEXITSTATUS(status) ELSE status

\* The code of the Exit_Status Child::try_wait returns for a status.
TryWaitCode(status) == status

\* The end of a call of Child::wait on Child c of launch i, returning code:
\* wait_with_output and cast_output then read_all both streams; cast_status
\* and cast_output return by value, which destroys their Child.
Finish(i, entry, c, code, os, table) ==
  LET collect == entry \in {"wait_with_output", "cast_output"}
      destroy == entry \in {"cast_status", "cast_output"}
      after == IF destroy THEN NoChild ELSE c
  IN  /\ ret' = [NoRet EXCEPT !.op = entry, !.slot = i, !.ok = TRUE, !.code = code,
                   !.os = os,
                   !.out = IF collect THEN read_all(Buffered(c.stdout_)) ELSE <<>>,
                   !.err = IF collect THEN read_all(Buffered(c.stderr_)) ELSE <<>>]
      /\ pipe' = IF collect THEN Drained(Drained(pipe, c.stdout_), c.stderr_) ELSE pipe
      /\ child' = [child EXCEPT ![i] = after]
      /\ open' = [table EXCEPT ![0] = @ \ Closed(c, after)]
      /\ hist' = [hist EXCEPT ![i].waits = IF @ < 2 THEN @ + 1 ELSE @,
                              ![i].first = IF hist[i].waits = 0 THEN code ELSE @]
      /\ pc' = Idle

\* Child::wait and Child::wait_with_output up to the blocking OS wait: a
\* cached status is returned at once; otherwise stdin_ is dropped first.
WaitCall(i, entry) ==
  LET c == child[i]
  IN  /\ pc.op = "idle"
      /\ c # NoChild
      /\ IF c.status_ # NO_STATUS
           THEN /\ Finish(i, entry, c, WaitCode(c.status_), FALSE, open)
                /\ proc' = proc
           ELSE /\ child' = [child EXCEPT ![i] = WaitDrop(c)]
                /\ open' = [open EXCEPT ![0] = @ \ Closed(c, WaitDrop(c))]
                /\ pc' = [Idle EXCEPT !.op = "wait", !.slot = i, !.entry = entry]
                /\ UNCHANGED <<proc, pipe, ret, hist>>
      /\ UNCHANGED <<fixed, spell>>

\* The OS wait of Child::wait returns.  waitpid returns the status of a
\* zombie it designates and reaps it (the loop then ends on ECHILD); when no
\* designated child exists it fails and the status variable stays
\* uninitialized.  WaitForSingleObject on a closed handle fails at once.
WaitReturn ==
  LET i == pc.slot
      c == child[i]
      D == Designated(c.pid_)
      Z == {j \in D : proc[j].state = "zombie"}
  IN  /\ pc.op = "wait"
      /\ \A j \in D : ~Alive(j)
      /\ \E status \in IF Z # {} THEN {proc[j].raw : j \in Z} ELSE Garbage :
           /\ proc' = [j \in Slots |->
                         IF j \in Z THEN [proc[j] EXCEPT !.state = "reaped"] ELSE proc[j]]
           /\ Finish(i, pc.entry, WaitCache(c, status), WaitCode(status), TRUE, open)
      /\ UNCHANGED <<fixed, spell>>

\* Child::try_wait: waitpid with WNOHANG (WaitForSingleObject with timeout 0)
\* finds a designated zombie or nothing.
try_wait(i) ==
  LET c == child[i]
      Z == {j \in Designated(c.pid_) : proc[j].state = "zombie"}
  IN  /\ pc.op = "idle"
      /\ c # NoChild
      /\ IF Z # {}
           THEN \E j \in Z :
                  /\ proc' = [proc EXCEPT ![j].state = "reaped"]
                  /\ child' = [child EXCEPT ![i].status_ = proc[j].raw]
                  /\ ret' = [NoRet EXCEPT !.op = "try_wait", !.slot = i, !.ok = TRUE,
                               !.code = TryWaitCode(proc[j].raw), !.os = TRUE,
                               !.alive = (\E k \in Designated(c.pid_) : Alive(k))]
           ELSE /\ ret' = [NoRet EXCEPT !.op = "try_wait", !.slot = i,
                               !.alive = (\E k \in Designated(c.pid_) : Alive(k))]
                /\ UNCHANGED <<proc, child>>
      /\ UNCHANGED <<fixed, spell, open, pipe, pc, hist>>

\* The process j once it was killed: SIGKILL on the fork branch,
\* TerminateProcess (id (), 0) followed by CloseHandle on _WIN32.
Killed(p) ==
  IF platform = "posix"
    THEN [p EXCEPT !.state = "zombie", !.raw = SIGKILL, !.how = "signal"]
    ELSE [p EXCEPT !.state = "reaped", !.raw = 0, !.how = "signal"]

\* Whether the OS accepts the termination request for process j: kill
\* succeeds on any process not yet reaped, TerminateProcess on a running one.
Killable(j) ==
  IF platform = "posix" THEN proc[j].state \in {"forked", "running", "zombie"}
  ELSE proc[j].state = "running"

\* Child::kill.  With the pid -1, kill signals every process of the caller,
\* of which there always is one.
kill(i) ==
  LET c == child[i]
      D == Designated(c.pid_)
      K == {j \in D : Killable(j)}
  IN  /\ pc.op = "idle"
      /\ c # NoChild
      /\ proc' = [j \in Slots |->
                    IF j \in K /\ Alive(j) THEN Killed(proc[j]) ELSE proc[j]]
      /\ open' = [p \in Procs |-> IF p \in K /\ Alive(p) THEN {} ELSE open[p]]
      /\ ret' = [NoRet EXCEPT !.op = "kill", !.slot = i,
                   !.ok = (K # {} \/ c.pid_ = FORK_ERROR),
                   !.alive = (\E j \in D : Alive(j))]
      /\ UNCHANGED <<fixed, spell, child, pipe, pc, hist>>

\* What a pipe holds after the OS write of byte b: the bytes of a pipe are
\* read in the order they were written.
Written_front(buf, b) == <<b>> \o buf

Written(buf, b) == Append(buf, b)

\* Anonymous_Pipe::read and write turn the result n of the OS call into their
\* optional: the count when the call succeeded, no value when it failed (a
\* negative n; on Windows the call returning FALSE).
AsOptional_value(n) == [has_value |-> TRUE, value |-> n]

AsOptional(n) ==
  IF n >= 0 THEN [has_value |-> TRUE, value |-> n]
  ELSE [has_value |-> FALSE, value |-> 0]

\* What a read or write whose OS call returned n returns.
IoResult(op, i, n) ==
  [NoRet EXCEPT !.op = op, !.slot = i, !.failed = (n < 0),
                !.ok = AsOptional(n).has_value, !.code = AsOptional(n).value]

\* Anonymous_Pipe::write of one byte through Child::get_stdin.  The write
\* fails on an invalid handle and on a pipe no process reads; it is made only
\* when the pipe has room (otherwise it would block).  On the fork platform
\* the write to a pipe no process reads also raises SIGPIPE: the call returns
\* the failure when the signal is ignored, and the calling process is
\* terminated when it is not (the library leaves the disposition alone).
stdin_write(i, b) ==
  LET c == child[i]
      k == pipe[i].in.kind
  IN  /\ pc.op = "idle"
      /\ c # NoChild
      /\ IF c.stdin_ = INVALID_PIPE \/ (k = "Piped" /\ Holders(i, "in", TRUE) = {})
           THEN \/ /\ ret' = IoResult("write", i, -1)
                   /\ UNCHANGED <<pipe, open, pc, hist>>
                \/ /\ platform = "posix"
                   /\ c.stdin_ # INVALID_PIPE
                   /\ ret' = IoResult("write", i, -1)
                   /\ pc' = [Idle EXCEPT !.op = "killed"]
                   /\ open' = [open EXCEPT ![0] = {}]
                   /\ UNCHANGED <<pipe, hist>>
           ELSE /\ k = "Piped" => Len(pipe[i].in.buf) < PipeCap
                /\ ret' = IoResult("write", i, 1)
                /\ pipe' = IF k = "Piped" THEN [pipe EXCEPT ![i].in.buf = Written(@, b)]
                           ELSE pipe
                /\ hist' = IF k = "Piped" THEN [hist EXCEPT ![i].wrote = Append(@, b)]
                           ELSE hist
                /\ UNCHANGED <<open, pc>>
      /\ UNCHANGED <<fixed, spell, child, proc>>

\* Anonymous_Pipe::write of one byte through Child::get_stdout (piping.cc,
\* test 6).  The handle is the parent's read end of the child's stdout when
\* the stream is a pipe, and the OS refuses to write to a read end; for
\* Inherit and Null it is a duplicate of the parent's stdout or of the null
\* device, which accepts the byte.
stdout_write(i, b) ==
  LET c == child[i]
      refused == c.stdout_ = INVALID_PIPE \/ pipe[i].out.kind = "Piped"
  IN  /\ pc.op = "idle"
      /\ c # NoChild
      /\ ret' = IoResult("write_stdout", i, IF refused THEN -1 ELSE 1)
      /\ UNCHANGED <<fixed, spell, child, proc, open, pipe, pc, hist>>

\* Anonymous_Pipe::read of one byte through Child::get_stdin: the handle is
\* the write end of the pipe, which the OS refuses to read from; the null
\* device is at its end.
stdin_read(i) ==
  LET c == child[i]
      refused == c.stdin_ = INVALID_PIPE \/ pipe[i].in.kind = "Piped"
  IN  /\ pc.op = "idle"
      /\ c # NoChild
      /\ c.stdin_ # INVALID_PIPE => pipe[i].in.kind \in {"Piped", "Null"}
      /\ ret' = IoResult("read_stdin", i, IF refused THEN -1 ELSE 0)
      /\ UNCHANGED <<fixed, spell, child, proc, open, pipe, pc, hist>>

\* Anonymous_Pipe::read of one byte through Child::get_stdout: a buffered
\* byte is taken; on an empty pipe the read blocks while a process holds the
\* write end, and once none does ::read returns 0 and ReadFile fails with a
\* broken pipe.
stdout_read(i) ==
  LET c == child[i]
      k == pipe[i].out.kind
      buf == pipe[i].out.buf
  IN  /\ pc.op = "idle"
      /\ c # NoChild
      /\ c.stdout_ # INVALID_PIPE => k \in {"Piped", "Null"}
      /\ IF c.stdout_ = INVALID_PIPE
           THEN ret' = IoResult("read_stdout", i, -1) /\ pipe' = pipe
           ELSE IF k = "Piped" /\ buf # <<>>
           THEN /\ ret' = [IoResult("read_stdout", i, 1) EXCEPT !.out = <<Head(buf)>>]
                /\ pipe' = [pipe EXCEPT ![i].out.buf = Tail(@)]
           ELSE /\ k = "Piped" => Holders(i, "out", FALSE) = {}
                /\ ret' = IoResult("read_stdout", i,
                                   IF k = "Piped" /\ platform = "win32" THEN -1 ELSE 0)
                /\ pipe' = pipe
      /\ UNCHANGED <<fixed, spell, child, proc, open, pc, hist>>

\* The std::optional<std::size_t> a bool converts to (return success;).
BoolAsSize(b) == [has_value |-> TRUE, value |-> IF b THEN 1 ELSE 0]

\* Anonymous_Pipe::read_all (out) on a pipe: what it returns and leaves in
\* out, given whether the handle is valid, the bytes buffered, the previous
\* content of out and whether the OS read fails.  On the fork platform the
\* count FIONREAD reports is read at once.  On Windows ReadFile is repeated
\* until it fails or reads nothing (it fails once the pipe is empty and no
\* process holds the write end), and the flag of the last call is returned.
read_all_call(p, valid, buffered, prev, read_fails) ==
  IF p = "posix"
    THEN IF ~valid THEN [r |-> AsOptional(-1), out |-> prev, failed |-> TRUE]
         ELSE IF buffered # <<>>
         THEN IF read_fails THEN [r |-> AsOptional(-1), out |-> <<>>, failed |-> TRUE]
              ELSE [r |-> AsOptional(Len(read_all(buffered))), out |-> read_all(buffered),
                    failed |-> FALSE]
         ELSE [r |-> AsOptional(0), out |-> <<>>, failed |-> FALSE]
    ELSE [r |-> BoolAsSize(FALSE), out |-> IF valid THEN read_all(buffered) ELSE <<>>,
          failed |-> TRUE]

\* Anonymous_Pipe::read_all through Child::get_stdout, into a vector holding
\* prev.  On Windows the call returns only when no process holds the write end.
stdout_read_all(i, prev, read_fails) ==
  LET c == child[i]
      valid == c.stdout_ # INVALID_PIPE
      res == read_all_call(platform, valid, Buffered(c.stdout_), prev, read_fails)
  IN  /\ pc.op = "idle"
      /\ c # NoChild
      /\ valid => pipe[i].out.kind = "Piped"
      /\ (valid /\ platform = "win32") => Holders(i, "out", FALSE) = {}
      /\ read_fails => (valid /\ platform = "posix" /\ Buffered(c.stdout_) # <<>>)
      /\ ret' = [NoRet EXCEPT !.op = "read_all", !.slot = i, !.ok = res.r.has_value,
                   !.code = res.r.value, !.out = res.out, !.failed = res.failed]
      /\ pipe' = IF valid /\ ~read_fails THEN Drained(pipe, c.stdout_) ELSE pipe
      /\ UNCHANGED <<fixed, spell, child, proc, open, pc, hist>>

(***************************************************************************)
(* Anonymous_Pipe objects: ownership of the OS handle.                     *)
(***************************************************************************)
\* Anonymous_Pipe::drop on object o of m: a valid handle is closed
\* (close_pipe) and the object made invalid; nothing happens otherwise.
dropped(m, o) ==
  LET h == m.obj[o].inner_
  IN  IF h # INVALID_PIPE
        THEN [m EXCEPT !.closes[h] = @ + 1, !.obj[o].inner_ = INVALID_PIPE]
        ELSE m

\* The move assignment without its drop (): inner_ = from.take () alone.
assigned_without_drop(m, to, from) ==
  [m EXCEPT !.obj[from].inner_ = INVALID_PIPE, !.obj[to].inner_ = m.obj[from].inner_]

\* Anonymous_Pipe::operator= (Anonymous_Pipe &&from): drop (), then
\* inner_ = from.take ().
assigned(m, to, from) ==
  LET d == dropped(m, to)
  IN  [d EXCEPT !.obj[from].inner_ = INVALID_PIPE, !.obj[to].inner_ = d.obj[from].inner_]

(***************************************************************************)
(* create_null and create_inherit against the descriptor table of the      *)
(* parent.  Descriptors are numbers; close acts on the number it is given.  *)
(***************************************************************************)
\* duplicate_pipe returning the handle it was given.
duplicate_pipe_same(F, h) == h

\* detail::duplicate_pipe: dup (h) returns the lowest descriptor not open
\* (DuplicateHandle: a handle not in use), F being the open ones.
duplicate_pipe(F, h) ==
  CHOOSE d \in 0..Cardinality(F) : d \notin F /\ \A e \in 0..(d - 1) : e \in F

\* Initialization of a function-local static that any thread not finding it
\* done starts.
static_init_unguarded(guard) == guard # "done"

\* Initialization of a function-local static: the first thread to arrive
\* runs the initializer, the threads arriving meanwhile wait until it is done.
static_init(guard) == guard = "uninit"

\* The variables create_null and create_inherit leave alone.
static_vars ==
  <<platform, ndebug, spell, env_calls, command_line, beyond, child, proc, open,
    pipe, pc, ret, hist, objs>>

\* Anonymous_Pipe::create_null on thread t, step by step: the initializers of
\* the statics s and h (fopen of the null device, fileno), call_once around
\* atexit, and the two duplicates it returns.
create_null(t) ==
  /\ ~statics.exited
  /\ \/ /\ statics.at[t] = "idle"
        /\ Cardinality(UNION {statics.held[u] : u \in Threads})
             + 2 * Cardinality({u \in Threads : statics.at[u] # "idle"}) + 2 <= MaxDups
        /\ \/ /\ static_init(statics.guard)
              /\ statics' = [statics EXCEPT !.guard = "busy", !.at[t] = "init"]
           \/ /\ statics.guard = "done"
              /\ statics' = [statics EXCEPT !.at[t] = "once"]
     \/ /\ statics.at[t] = "init"
        /\ LET fd == CHOOSE d \in 0..Cardinality(statics.fds) :
                         d \notin statics.fds /\ \A e \in 0..(d - 1) : e \in statics.fds
           IN  statics' = [statics EXCEPT !.fds = @ \cup {fd},
                                          !.h = fd,
                                          !.opens = @ + 1,
                                          !.guard = "done",
                                          !.at[t] = "once"]
     \/ /\ statics.at[t] = "once"
        /\ statics' = [statics EXCEPT
                         !.once_flag = TRUE,
                         !.atexit = IF statics.once_flag THEN @ ELSE @ + 1,
                         !.at[t] = "dup"]
     \/ /\ statics.at[t] = "dup"
        /\ LET read == duplicate_pipe(statics.fds, statics.h)
               write == duplicate_pipe(statics.fds \cup {read}, statics.h)
           IN  statics' = [statics EXCEPT !.fds = @ \cup {read, write},
                                          !.held[t] = @ \cup {read, write},
                                          !.made.null = IF @ < 2 THEN @ + 1 ELSE @,
                                          !.at[t] = "idle"]
  /\ UNCHANGED static_vars

\* Anonymous_Pipe::create_inherit on thread t for a standard stream of the
\* parent: two duplicates of its descriptor.
create_inherit(t, stream) ==
  /\ ~statics.exited
  /\ statics.at[t] = "idle"
  /\ Cardinality(UNION {statics.held[u] : u \in Threads})
       + 2 * Cardinality({u \in Threads : statics.at[u] # "idle"}) + 2 <= MaxDups
  /\ LET read == duplicate_pipe(statics.fds, stream)
         write == duplicate_pipe(statics.fds \cup {read}, stream)
     IN  statics' = [statics EXCEPT !.fds = @ \cup {read, write},
                                    !.held[t] = @ \cup {read, write},
                                    !.made.inherit = IF @ < 2 THEN @ + 1 ELSE @]
  /\ UNCHANGED static_vars

\* detail::close_pipe, as the drop of a pair made by create_null or
\* create_inherit, Child::wait and the destruction of a Child reach it.
close_pipe(t, h) ==
  /\ ~statics.exited
  /\ statics.at[t] = "idle"
  /\ h \in statics.held[t]
  /\ statics' = [statics EXCEPT !.fds = @ \ {h}, !.held[t] = @ \ {h}]
  /\ UNCHANGED static_vars

\* The parent returns from main: the handlers registered with atexit run,
\* each an fclose of the null device.
exit ==
  /\ ~statics.exited
  /\ \A t \in Threads : statics.at[t] = "idle"
  /\ statics' = [statics EXCEPT
                   !.fds = IF statics.atexit > 0 THEN @ \ {statics.h} ELSE @,
                   !.exited = TRUE]
  /\ UNCHANGED static_vars

\* The variables the operations on Anonymous_Pipe objects leave alone.
launch_vars ==
  <<platform, ndebug, spell, env_calls, command_line, beyond, child, proc, open,
    pipe, pc, ret, hist, statics>>

\* An operation on the objects is made between calls of the library.
CanOperate(o) ==
  /\ pc.op = "idle"
  /\ objs.call.op = "idle"
  /\ objs.obj[o].state = "live"

\* Anonymous_Pipe (Anonymous_Pipe &&from): object to is constructed.
move_construct(to, from) ==
  /\ CanOperate(from)
  /\ objs.obj[to].state = "none"
  /\ objs' = [objs EXCEPT !.obj[to] = [state |-> "live", inner_ |-> objs.obj[from].inner_],
                          !.obj[from].inner_ = INVALID_PIPE]
  /\ UNCHANGED launch_vars

\* Anonymous_Pipe::operator= (Anonymous_Pipe &&from), from being any live
\* object (to itself included).
operator_assign(to, from) ==
  /\ CanOperate(to)
  /\ CanOperate(from)
  /\ objs' = assigned(objs, to, from)
  /\ UNCHANGED launch_vars

\* Anonymous_Pipe::take: the handle goes to the caller, who owns it from then.
take(o) ==
  /\ CanOperate(o)
  /\ objs' = [objs EXCEPT !.obj[o].inner_ = INVALID_PIPE,
                          !.taken = @ \cup ({objs.obj[o].inner_} \ {INVALID_PIPE})]
  /\ UNCHANGED launch_vars

\* Anonymous_Pipe::drop
drop(o) ==
  /\ CanOperate(o)
  /\ objs' = dropped(objs, o)
  /\ UNCHANGED launch_vars

\* ~Anonymous_Pipe: drop (), and the object is gone.
destroy(o) ==
  /\ CanOperate(o)
  /\ objs' = [dropped(objs, o) EXCEPT !.obj[o].state = "dead"]
  /\ UNCHANGED launch_vars

\* Anonymous_Pipe::write_all (data, count) on object o, data pointing to
\* elements of size bytes and the buffer holding the bytes 1 .. count.  The
\* call enters the loop; each turn of the loop makes one OS write of the
\* count bytes at data, whose result r is a failure (-1, the only result on
\* an invalid handle) or the number of bytes accepted, 0 included; the loop
\* then advances data by r elements and count by r bytes.  sent are the
\* bytes accepted so far (0 standing for a byte read after the buffer's end),
\* calls is the parity of the number of writes made.  When the call returns,
\* result and sent are what is left of it.
write_all(o) ==
  LET c == objs.call
  IN  \/ /\ CanOperate(o)
         /\ \E count \in 1..MaxCount, size \in {1, 2} :
              objs' = [objs EXCEPT !.call =
                         [op |-> "write_all", o |-> o, size |-> size, total |-> count,
                          data |-> 0, count |-> count, sent |-> <<>>, calls |-> 0,
                          result |-> FALSE]]
         /\ UNCHANGED launch_vars
      \/ /\ c.op = "write_all"
         /\ c.o = o
         /\ \E r \in IF objs.obj[o].inner_ = INVALID_PIPE THEN {-1} ELSE (-1)..c.count :
              IF AsOptional(r).has_value
                THEN LET at == c.data * c.size
                         bytes == [k \in 1..r |-> IF at + k <= c.total THEN at + k ELSE 0]
                         left == c.count - r
                     IN  objs' = [objs EXCEPT !.call =
                                    IF left = 0
                                      THEN [NewObjs.call EXCEPT !.sent = c.sent \o bytes,
                                                                !.result = TRUE]
                                      ELSE [c EXCEPT !.data = c.data + r, !.count = left,
                                                     !.sent = c.sent \o bytes,
                                                     !.calls = 1 - c.calls]]
                ELSE objs' = [objs EXCEPT !.call = [NewObjs.call EXCEPT !.sent = c.sent]]
         /\ UNCHANGED launch_vars

(***************************************************************************)
(* The launched programs.                                                  *)
(***************************************************************************)
\* The wait status (the exit code on win32) of a process that returned code.
Returned(code) == IF platform = "posix" THEN W_EXITCODE(code) ELSE code

\* The program reads its standard input: a byte of the pipe, or end-of-stream
\* once the pipe is empty and no process holds its write end; the null device
\* is at end-of-stream at once.
ProgRead(i) ==
  LET k == pipe[i].in.kind
      buf == pipe[i].in.buf
  IN  /\ proc[i].state = "running"
      /\ proc[i].need
      /\ k \in {"Piped", "Null"}
      /\ k = "Piped" => buf # <<>> \/ Holders(i, "in", FALSE) = {}
      /\ proc' = [proc EXCEPT ![i].need = FALSE,
                              ![i].got = IF buf # <<>> THEN <<Head(buf)>> ELSE <<>>]
      /\ pipe' = IF buf # <<>> THEN [pipe EXCEPT ![i].in.buf = Tail(@)] ELSE pipe
      /\ UNCHANGED <<fixed, spell, child, open, pc, ret, hist>>

\* The program reads a byte typed at the terminal it inherited as its input.
TtyRead(i) ==
  /\ proc[i].state = "running"
  /\ proc[i].need
  /\ pipe[i].in.kind = "Inherit"
  /\ proc' = [proc EXCEPT ![i].need = FALSE, ![i].got = <<1>>]
  /\ UNCHANGED <<fixed, spell, child, open, pipe, pc, ret, hist>>

\* The program writes the next byte of its output: to standard output first,
\* then to standard error.  A write to a full pipe blocks.
ProgWrite(i) ==
  LET p == proc[i]
      out == WritesOut(p.prog, p.got)
      err == WritesErr(p.prog)
      s == IF p.nout < Len(out) THEN "out" ELSE "err"
      b == IF s = "out" THEN out[p.nout + 1] ELSE err[p.nerr + 1]
  IN  /\ p.state = "running"
      /\ ~p.need
      /\ p.nout < Len(out) \/ p.nerr < Len(err)
      /\ pipe[i][s].kind = "Piped" => Len(pipe[i][s].buf) < PipeCap
      /\ pipe' = IF pipe[i][s].kind = "Piped"
                   THEN [pipe EXCEPT ![i][s].buf = Append(@, b)]
                   ELSE pipe
      /\ proc' = IF s = "out" THEN [proc EXCEPT ![i].nout = @ + 1]
                 ELSE [proc EXCEPT ![i].nerr = @ + 1]
      /\ UNCHANGED <<fixed, spell, child, open, pc, ret, hist>>

\* The program returns from main: the process terminates and its
\* descriptors are closed.
ProgExit(i) ==
  LET p == proc[i]
  IN  /\ p.state = "running"
      /\ ~p.need
      /\ p.nout = Len(WritesOut(p.prog, p.got))
      /\ p.nerr = Len(WritesErr(p.prog))
      /\ proc' = [proc EXCEPT ![i].state = "zombie",
                              ![i].raw = Returned(ExitCode(p.prog, p.argc)),
                              ![i].how = "exit"]
      /\ open' = [open EXCEPT ![i] = {}]
      /\ UNCHANGED <<fixed, spell, child, pipe, pc, ret, hist>>

(***************************************************************************)
(* The specification.                                                      *)
(***************************************************************************)
Entries == {"cast", "cast_status", "cast_output"}

Build ==
  \/ \E program \in Programs : Spell_new(program)
  \/ spell.program_ = "return_number_of_args" /\ arg(<<"1">>)
  \/ \E cfg \in Stdio : set_stdout(cfg)
  \/ \E cfg \in Stdio : set_stderr(cfg)
  \/ \E cfg \in Stdio : set_stdin(cfg)

Launch ==
  \/ \E entry \in Entries : CastPosix(entry, {1})
  \/ \E entry \in Entries : CastWin32(entry, {1})
  \/ CastRead

Use ==
  \/ \E i \in Slots : WaitCall(i, "wait")
  \/ \E i \in Slots : WaitCall(i, "wait_with_output")
  \/ WaitReturn
  \/ \E i \in Slots : try_wait(i)
  \/ \E i \in Slots : kill(i)
  \/ \E i \in Slots : stdin_write(i, Len(hist[i].wrote) + 1)

Run ==
  \/ \E i \in Slots : ChildExec(i)
  \/ \E i \in Slots : ProgRead(i)
  \/ \E i \in Slots : TtyRead(i)
  \/ \E i \in Slots : ProgWrite(i)
  \/ \E i \in Slots : ProgExit(i)

Next == Build \/ Launch \/ Use \/ Run

Spec == Init /\ [][Next]_vars

(***************************************************************************)
(* The launches of args.cc and env.cc: a descriptor of a program that      *)
(* prints what it was started with is given arguments, or environment      *)
(* calls, or a working directory, and is launched once.  The programs are  *)
(* observed through the argument vector, the environment and the working  *)
(* directory their process starts with.                                    *)
(***************************************************************************)
ConfPrograms == {"print_args", "print_env"}

\* The arguments given: a word, two words separated by a space, and the
\* empty string.
ArgValues == {<<"a">>, <<"b", " ", "c">>, <<>>}

Keys == {<<"PATH">>, <<"foo">>}

Values == {<<"bar">>, <<>>}

Dirs ==
  {[absolute |-> TRUE, parts |-> <<"srv">>],
   [absolute |-> FALSE, parts |-> <<"sub">>],
   [absolute |-> FALSE, parts |-> <<"..">>]}

ConfInit == Boot(ConfPrograms, {<<>>}, {<<NUL>>})

ConfBuild ==
  \/ \E a \in ArgValues : spell.program_ = "print_args" /\ arg(a)
  \/ \E a \in ArgValues : get_args(1, a)
  \/ \E dir \in Dirs : spell.program_ = "print_args" /\ current_dir(dir)
  \/ \E key \in Keys, val \in Values : spell.program_ = "print_env" /\ env(key, val)
  \/ spell.program_ = "print_env" /\ envs(<< <<<<"foo">>, <<"bar">>>>, <<<<"PATH">>, <<>>>> >>)
  \/ spell.program_ = "print_env" /\ env_clear
  \/ \E key \in Keys : spell.program_ = "print_env" /\ env_remove(key)
  \/ spell.program_ = "print_env" /\ env_calls = <<>> /\ get_envs(<<"PATH">>)
  \/ spell.program_ = "print_env" /\ env_calls = <<>> /\ get_envs_const(<<"PATH">>)

ConfUse ==
  \/ \E i \in Slots : WaitCall(i, "wait")
  \/ WaitReturn

ConfRun ==
  \/ \E i \in Slots : ChildExec(i)
  \/ \E i \in Slots : ProgExit(i)

ConfNext == ConfBuild \/ Launch \/ ConfUse \/ ConfRun

ConfSpec == ConfInit /\ [][ConfNext]_vars

(***************************************************************************)
(* from_string applied to every command line of up to MaxLen characters,   *)
(* followed in memory by up to MaxBeyond readable bytes.                   *)
(***************************************************************************)
Chars == {"p", " ", "\\", "'", "\""}

\* Every line of up to MaxLen characters, and the lines with an empty quoted
\* token between two tokens.
CommandLines ==
  UNION {[1..n -> Chars] : n \in 0..MaxLen}
    \cup {<<"p", " ", q, q, " ", "p">> : q \in {"'", "\""}}

Memory == UNION {[1..n -> {NUL, " ", "p"}] : n \in 0..MaxBeyond}

TokInit ==
  /\ Boot({<<>>}, CommandLines, Memory)
  /\ platform = "posix"
  /\ ~ndebug

TokNext == from_string

TokSpec == TokInit /\ [][TokNext]_vars

(***************************************************************************)
(* The reads and writes of piping.cc: a program that writes, or one that   *)
(* echoes a byte, is launched once with its stdin and stdout configured,   *)
(* and the parent reads and writes through the handles of the Child.       *)
(***************************************************************************)
IoPrograms == {"hello_world", "echo_stdin_char"}

IoInit ==
  /\ Boot(IoPrograms, {<<>>}, {<<NUL>>})
  /\ ~ndebug

\* The vector given to read_all is empty or holds a byte before the call.
IoNext ==
  \/ \E cfg \in Stdio : set_stdout(cfg)
  \/ \E cfg \in Stdio : set_stdin(cfg)
  \/ Launch
  \/ \E i \in Slots : stdin_write(i, Len(hist[i].wrote) + 1)
  \/ \E i \in Slots : stdout_write(i, 1)
  \/ \E i \in Slots : stdin_read(i)
  \/ \E i \in Slots : stdout_read(i)
  \/ \E i \in Slots, prev \in {<<>>, <<0>>}, read_fails \in BOOLEAN :
       stdout_read_all(i, prev, read_fails)
  \/ \E i \in Slots : WaitCall(i, "wait")
  \/ WaitReturn
  \/ Run

IoSpec == IoInit /\ [][IoNext]_vars

(***************************************************************************)
(* The Environment Map of a descriptor on its own: set, remove, clear and  *)
(* rename in any order, with names that are plain, that hold a '=', and    *)
(* that the environment of the process defines.                            *)
(***************************************************************************)
EnvKeys == {<<"a">>, <<"a", "=", "b">>, <<"PATH">>}

EnvInit ==
  /\ Boot({"print_env"}, {<<>>}, {<<NUL>>})
  /\ platform = "posix"
  /\ ~ndebug

EnvNext ==
  \/ \E key \in EnvKeys, val \in {<<>>, <<"c">>} : env(key, val)
  \/ \E key \in EnvKeys : env_remove(key)
  \/ env_clear
  \/ \E key, new_key \in EnvKeys : rename(key, new_key)

EnvSpec == EnvInit /\ [][EnvNext]_vars

(***************************************************************************)
(* Anonymous_Pipe objects moved, assigned, taken from, dropped, destroyed  *)
(* and written to in any order.  The calling thread keeps running: a       *)
(* write_all in progress makes its next write.                             *)
(***************************************************************************)
PipeInit ==
  /\ Boot({<<>>}, {<<>>}, {<<NUL>>})
  /\ platform = "posix"
  /\ ~ndebug

PipeNext ==
  \/ \E to, from \in 1..MaxObjs : move_construct(to, from)
  \/ \E to, from \in 1..MaxObjs : operator_assign(to, from)
  \/ \E o \in 1..MaxObjs : take(o)
  \/ \E o \in 1..MaxObjs : drop(o)
  \/ \E o \in 1..MaxObjs : destroy(o)
  \/ \E o \in 1..MaxObjs : write_all(o)

PipeSpec ==
  /\ PipeInit
  /\ [][PipeNext]_vars
  /\ WF_vars(\E o \in 1..MaxObjs : write_all(o))

(***************************************************************************)
(* The streams of launches with Null and Inherit, made on two threads of   *)
(* the parent, their duplicates closed in any order, and the exit of the   *)
(* parent.                                                                 *)
(***************************************************************************)
StaticInit ==
  /\ Boot({<<>>}, {<<>>}, {<<NUL>>})
  /\ ~ndebug

StaticNext ==
  \/ \E t \in Threads : create_null(t)
  \/ \E t \in Threads, stream \in {0, 1, 2} : create_inherit(t, stream)
  \/ \E t \in Threads, h \in 0..(MaxDups + 3) : close_pipe(t, h)
  \/ exit

StaticSpec == StaticInit /\ [][StaticNext]_vars

(***************************************************************************)
(* Two launches of one descriptor, one after the other: a program that     *)
(* reads its stdin is launched with cast twice, both Child objects stay    *)
(* alive, and the parent waits on them.  Every process that can take a     *)
(* step eventually takes one, and a blocked system call returns once its   *)
(* condition holds.                                                        *)
(***************************************************************************)
SeqInit ==
  /\ Boot({"echo_stdin_char"}, {<<>>}, {<<NUL>>})
  /\ ~ndebug

SeqNext ==
  \/ \E cfg \in Stdio : set_stdout(cfg)
  \/ \E cfg \in Stdio : set_stdin(cfg)
  \/ CastPosix("cast", Slots)
  \/ CastWin32("cast", Slots)
  \/ CastRead
  \/ \E i \in Slots : WaitCall(i, "wait")
  \/ WaitReturn
  \/ Run

SeqSpec ==
  /\ SeqInit
  /\ [][SeqNext]_vars
  /\ \A i \in Slots : WF_vars(ChildExec(i) \/ ProgRead(i) \/ ProgWrite(i) \/ ProgExit(i))
  /\ WF_vars(CastRead)
  /\ WF_vars(WaitReturn)

(***************************************************************************)
(* Properties.                                                             *)
(***************************************************************************)
\* The process of launch i ran an existing program that returned from main.
Returned_main(i) ==
  /\ i \in Slots
  /\ proc[i].state \in {"zombie", "reaped"}
  /\ proc[i].how = "exit"
  /\ Exists(proc[i].prog)

\* C1: a launch of a program that does not exist, through cast, cast_status
\* or cast_output, returns an absent result.
C1_MissingProgramAbsent ==
  (ret.op \in Entries /\ proc[ret.slot].prog = "i_do_not_exist") => ~ret.ok

\* C2: no Child carrying the process id of a failed fork is handed to the
\* caller, and a launch whose fork failed returns an absent result.
C2_NoChildOnForkFailure ==
  /\ \A i \in Slots : child[i].pid_ # FORK_ERROR
  /\ (ret.op \in Entries /\ proc[ret.slot].state = "none") => ~ret.ok

\* C3: the second and later calls of wait on a Child return the code the
\* first call returned, without invoking the OS wait primitive again.
C3_WaitIdempotent ==
  (/\ ret.op \in {"wait", "wait_with_output"}
   /\ child[ret.slot].pid_ \in Slots
   /\ hist[ret.slot].waits >= 2)
    => (ret.code = hist[ret.slot].first /\ ~ret.os)

\* C4: on the fork branch every Exit_Status of a program that returned from
\* main carries the code main returned, and success () holds exactly when
\* that code is zero.
C4_DecodedExitCode ==
  (/\ platform = "posix"
   /\ ret.op \in {"try_wait", "wait", "wait_with_output", "cast_status"}
   /\ ret.ok
   /\ Returned_main(ret.slot))
    => (/\ ret.code = ExitCode(proc[ret.slot].prog, proc[ret.slot].argc)
        /\ success(Exit_Status(ret.code)) <=> (ExitCode(proc[ret.slot].prog, proc[ret.slot].argc) = 0))

\* C5: kill returns true exactly when the child had not yet exited when it
\* was called.
C5_KillResult ==
  (/\ ret.op = "kill"
   /\ proc[ret.slot].state # "none"
   /\ Exists(proc[ret.slot].prog))
    => (ret.ok <=> ret.alive)

\* C6: for a program that wrote its output and returned from main, cast_output
\* with stdout and stderr launched as pipes returns exactly the bytes the
\* program wrote to each stream, and the code it returned.
C6_CastOutputCaptures ==
  (/\ ret.op = "cast_output"
   /\ ret.ok
   /\ Returned_main(ret.slot)
   /\ pipe[ret.slot].out.kind = "Piped"
   /\ pipe[ret.slot].err.kind = "Piped")
    => (/\ ret.out = WritesOut(proc[ret.slot].prog, proc[ret.slot].got)
        /\ ret.err = WritesErr(proc[ret.slot].prog)
        /\ ret.code = ExitCode(proc[ret.slot].prog, proc[ret.slot].argc))

\* cast_output returned the output of a program that wrote to a stream.
C6_Witness ==
  /\ ret.op = "cast_output"
  /\ ret.ok
  /\ Returned_main(ret.slot)
  /\ \/ proc[ret.slot].prog = "hello_world" /\ ret.out = Bytes(PipeCap) /\ ret.err = <<>>
     \/ proc[ret.slot].prog = "hello_world_stderr" /\ ret.err = Bytes(PipeCap)
          /\ ret.out = <<>>

\* The program of launch i is blocked in a write to a pipe that is full.
BlockedOnWrite(i) ==
  LET p == proc[i]
      s == IF p.nout < Len(WritesOut(p.prog, p.got)) THEN "out" ELSE "err"
  IN  /\ p.state = "running"
      /\ ~p.need
      /\ p.nout < Len(WritesOut(p.prog, p.got)) \/ p.nerr < Len(WritesErr(p.prog))
      /\ pipe[i][s].kind = "Piped"
      /\ Len(pipe[i][s].buf) = PipeCap

\* C7: the child is never blocked on a full pipe while the parent is blocked
\* in the OS wait of wait on it.
C7_NoBackpressureDeadlock ==
  \A i \in Slots : ~(pc.op = "wait" /\ pc.slot = i /\ BlockedOnWrite(i))

\* C8: once wait has returned on a Child its stdin pipe is closed and
\* invalid, and no write through get_stdin is accepted.
C8_StdinClosedAfterWait ==
  /\ \A i \in Slots :
       (hist[i].waits >= 1 /\ child[i] # NoChild)
         => (child[i].stdin_ = INVALID_PIPE /\ H(i, "in.write") \notin open[0])
  /\ (ret.op = "write" /\ ret.ok) => hist[ret.slot].waits = 0

\* The parent is blocked in wait on a child with a piped stdin whose program
\* is blocked reading it.
C9_Waiting(i) ==
  /\ pc.op = "wait"
  /\ pc.slot = i
  /\ pipe[i].in.kind = "Piped"
  /\ proc[i].state = "running"
  /\ proc[i].need

\* C9: wait on a child with a piped stdin whose program blocks reading its
\* stdin eventually returns.
C9_WaitReturns == \A i \in Slots : C9_Waiting(i) ~> (pc.op = "idle")

\* wait returned on a child that read end-of-stream from its piped stdin
\* without the caller having written a byte.
C9_Witness ==
  /\ ret.op = "wait"
  /\ proc[ret.slot].prog = "echo_stdin_char"
  /\ pipe[ret.slot].in.kind = "Piped"
  /\ proc[ret.slot].how = "exit"
  /\ proc[ret.slot].got = <<>>

\* The mode a stream configured as cfg is launched with by entry point entry.
C10_Mode(cfg, entry) ==
  CASE cfg # "Default" -> cfg
    [] entry = "cast_output" -> "Piped"
    [] OTHER -> "Inherit"

\* C10: at a launch a stream configured as Default is created as Inherit by
\* cast and cast_status and as Piped by cast_output; a stream configured as
\* Inherit, Piped or Null is created with that mode by all three.
C10_StreamResolution ==
  [][\A i \in Slots :
       (~hist[i].used /\ hist'[i].used)
         => (/\ hist'[i].entry \in Entries
             /\ pipe'[i].in.kind = C10_Mode(spell.stdin_, hist'[i].entry)
             /\ pipe'[i].out.kind = C10_Mode(spell.stdout_, hist'[i].entry)
             /\ pipe'[i].err.kind = C10_Mode(spell.stderr_, hist'[i].entry))]_vars

\* A launch by cast_output created a Default stream as a pipe next to streams
\* set to Inherit and to Null.
C10_Witness ==
  \E i \in Slots :
    /\ hist[i].used
    /\ hist[i].entry = "cast_output"
    /\ pipe[i].out.kind = "Piped"
    /\ pipe[i].in.kind = "Inherit"
    /\ pipe[i].err.kind = "Null"

\* C11: a launch leaves the descriptor unchanged: the program, the arguments
\* and the three stream modes are the same after cast, cast_status or
\* cast_output as before, so a stream left as Default is still Default.
C11_LaunchKeepsDescriptor ==
  [][(\E i \in Slots : ~hist[i].used /\ hist'[i].used) => spell' = spell]_vars

\* C12: a launched process runs with the descriptor's working directory as
\* its working directory.
C12_ChildWorkingDir ==
  \A i \in Slots :
    (proc[i].state \in {"running", "zombie", "reaped"} /\ Exists(proc[i].prog))
      => proc[i].cwd = spell.working_dir_

\* C13: the process receives the program followed by exactly the
\* descriptor's arguments, in order, each as one element.
C13_ArgumentVector ==
  \A i \in Slots :
    (proc[i].state \in {"running", "zombie", "reaped"} /\ Exists(proc[i].prog))
      => proc[i].argv = <<<<spell.program_>>>> \o spell.args_

\* The process of launch i was started with the image of an existing program.
Started(i) ==
  proc[i].state \in {"running", "zombie", "reaped"} /\ Exists(proc[i].prog)

\* The variables of the parent process, by name.
ParentVars ==
  [k \in {<<"PATH">>, <<"HOME">>} |-> IF k = <<"PATH">> THEN <<"/bin">> ELSE <<"/root">>]

\* A finite map with no variable.
NoVars == [k \in {} |-> <<>>]

\* The finite map a sequence of environment calls makes of the map m.
RECURSIVE RefEnv(_, _)
RefEnv(m, calls) ==
  IF calls = <<>> THEN m
  ELSE LET c == Head(calls)
           n == CASE c.op = "set" ->
                       [k \in DOMAIN m \cup {c.key} |-> IF k = c.key THEN c.val ELSE m[k]]
                  [] c.op = "remove" -> [k \in DOMAIN m \ {c.key} |-> m[k]]
                  [] c.op = "get" -> m
                  [] c.op = "rename" ->
                       IF c.key \in DOMAIN m
                         THEN [k \in (DOMAIN m \ {c.key}) \cup {c.val} |->
                                 IF k = c.val THEN m[c.key] ELSE m[k]]
                         ELSE m
                  [] OTHER -> NoVars
       IN  RefEnv(n, Tail(calls))

\* The environment strings of a finite map.
AsStrings(m) == {k \o <<"=">> \o m[k] : k \in DOMAIN m}

\* The position of the last env_clear among the calls (0 when there is none).
LastClear(calls) ==
  IF \E k \in 1..Len(calls) : calls[k].op = "clear"
    THEN CHOOSE k \in 1..Len(calls) :
           calls[k].op = "clear" /\ \A j \in (k + 1)..Len(calls) : calls[j].op # "clear"
    ELSE 0

\* The calls made after the last env_clear.
SinceClear(calls) == SubSeq(calls, LastClear(calls) + 1, Len(calls))

\* C14: after env_clear followed by env and envs calls only, the environment
\* of the launched process is exactly the variables set since the clear; no
\* variable of the parent is among them.
C14_ClearedEnvironment ==
  \A i \in Slots :
    (/\ Started(i)
     /\ LastClear(env_calls) > 0
     /\ \A k \in 1..Len(SinceClear(env_calls)) : SinceClear(env_calls)[k].op = "set")
      => proc[i].envp = AsStrings(RefEnv(NoVars, SinceClear(env_calls)))

\* A process was started after env_clear, made as the first environment
\* call, and one env call: it has that one variable and not PATH.
C14_Witness ==
  \E i \in Slots :
    /\ Started(i)
    /\ Len(env_calls) = 2
    /\ env_calls[1].op = "clear"
    /\ env_calls[2] = EnvCall("set", <<"foo">>, <<"bar">>)
    /\ proc[i].envp = {<<"foo", "=", "bar">>}

\* C15: a descriptor without environment calls launches with no explicit
\* environment, the process inheriting the parent's; when the first call is
\* env, envs or env_remove the process gets the parent's variables changed
\* by the calls made.
C15_InheritedEnvironment ==
  \A i \in Slots :
    Started(i) =>
      /\ env_calls = <<>> => (~proc[i].block /\ proc[i].envp = environ)
      /\ (env_calls # <<>> /\ Head(env_calls).op # "clear")
           => (proc[i].block /\ proc[i].envp = AsStrings(RefEnv(ParentVars, env_calls)))

\* A process was started after the single call env (foo, bar): it has the
\* parent's variables and foo.
C15_Witness ==
  \E i \in Slots :
    /\ Started(i)
    /\ env_calls = <<EnvCall("set", <<"foo">>, <<"bar">>)>>
    /\ proc[i].envp = environ \cup {<<"foo", "=", "bar">>}
    /\ proc[i].block

\* C16: the Environment Map of the descriptor agrees with the finite map its
\* calls make: get returns the value of the last set not followed by a remove
\* or a clear and the empty string otherwise, and the map holds one variable
\* per name.
C16_EnvAgreesWithMap ==
  spell.env_.has_value =>
    LET m == RefEnv(ParentVars, env_calls)
    IN  /\ \A k \in Keys \cup DOMAIN ParentVars :
             Env_get(spell.env_.data_, k) = IF k \in DOMAIN m THEN m[k] ELSE <<>>
        /\ Cardinality(spell.env_.data_) = Cardinality(DOMAIN m)

\* The last call set a name to a value after an earlier call had set it to
\* another value, and get returns the later value.
C16_Witness ==
  /\ spell.env_.has_value
  /\ Len(env_calls) >= 2
  /\ env_calls[Len(env_calls)].op = "set"
  /\ env_calls[Len(env_calls) - 1].op = "set"
  /\ env_calls[Len(env_calls)].key = env_calls[Len(env_calls) - 1].key
  /\ env_calls[Len(env_calls)].val # env_calls[Len(env_calls) - 1].val
  /\ Env_get(spell.env_.data_, env_calls[Len(env_calls)].key) = env_calls[Len(env_calls)].val
  /\ Env_get(spell.env_.data_, env_calls[Len(env_calls)].key) # <<>>

\* The tokens of a command line: separated by unescaped, unquoted spaces; a
\* backslash makes the next character literal; a quote opens a span that
\* the same quote closes, the quotes being removed; a backslash that ends
\* the line is dropped.
RECURSIVE RefTokens(_, _, _, _)
RefTokens(line, token, started, quote) ==
  IF line = <<>> THEN (IF started THEN <<token>> ELSE <<>>)
  ELSE IF Head(line) = "\\"
    THEN IF Len(line) = 1 THEN RefTokens(<<>>, token, started, quote)
         ELSE RefTokens(Tail(Tail(line)), Append(token, line[2]), TRUE, quote)
  ELSE IF Head(line) \in {"'", "\""} /\ quote = ""
    THEN RefTokens(Tail(line), token, TRUE, Head(line))
  ELSE IF Head(line) = quote
    THEN RefTokens(Tail(line), token, TRUE, "")
  ELSE IF Head(line) = " " /\ quote = ""
    THEN (IF started THEN <<token>> ELSE <<>>) \o RefTokens(Tail(line), <<>>, FALSE, "")
  ELSE RefTokens(Tail(line), Append(token, Head(line)), TRUE, quote)

\* Whether the line ends with a backslash that no backslash before it escapes.
RECURSIVE EndsWithBackslash(_)
EndsWithBackslash(line) ==
  IF line = <<>> THEN FALSE
  ELSE IF Head(line) = "\\" THEN (Len(line) = 1 \/ EndsWithBackslash(Tail(Tail(line))))
  ELSE EndsWithBackslash(Tail(line))

\* C17: for a command line held in a NUL-terminated string and not ending in
\* an unescaped backslash, from_string returns the descriptor whose program
\* is the first token and whose arguments are the tokens after it.
C17_FromStringTokens ==
  (/\ ret.op = "from_string"
   /\ Len(beyond) >= 1
   /\ beyond[1] = NUL
   /\ ~EndsWithBackslash(command_line))
    => LET tokens == RefTokens(command_line, <<>>, FALSE, "")
       IN  /\ ret.ok
           /\ spell.program_ = IF tokens = <<>> THEN <<>> ELSE Head(tokens)
           /\ spell.args_ = IF tokens = <<>> THEN <<>> ELSE Tail(tokens)

\* C18: for a command line ending in an unescaped backslash from_string
\* returns what it returns for the line without that backslash, and reads no
\* character at or after the end of the line.
C18_TrailingBackslash ==
  (ret.op = "from_string" /\ EndsWithBackslash(command_line))
    => LET r == from_string_of(SubSeq(command_line, 1, Len(command_line) - 1), <<NUL>>)
       IN  /\ ret.ok
           /\ ~ret.over
           /\ spell.program_ = r.program_
           /\ spell.args_ = r.args_

\* C19: cast, cast_status and cast_output return normally, with a result or
\* an absent marker, whatever the read of the side channel returned.
C19_LaunchReturns == ret.op \in Entries => ~ret.threw

\* C20: try_wait on the Child of a process that was started returns a
\* status exactly when the process has exited, on every call.
C20_TryWaitAfterExit ==
  (/\ ret.op = "try_wait"
   /\ child[ret.slot].pid_ \in Slots
   /\ Exists(proc[ret.slot].prog)
   /\ proc[ret.slot].how # "signal")
    => (ret.ok <=> ~ret.alive)

\* C21: the bytes written to a child's piped stdin before wait reach the child
\* in the order they were written (what the child has read, followed by what
\* the pipe still holds, is what the parent wrote); and when a program that
\* echoes one byte was written to before the first wait and ran to its
\* return, the read of its piped stdout yields the first byte written.
C21_WrittenBytesReachChild ==
  \A i \in Slots :
    /\ pipe[i].in.kind = "Piped" => proc[i].got \o pipe[i].in.buf = hist[i].wrote
    /\ (/\ ret.op = "wait_with_output"
        /\ ret.slot = i
        /\ hist[i].waits = 1
        /\ proc[i].prog = "echo_stdin_char"
        /\ Returned_main(i)
        /\ pipe[i].in.kind = "Piped"
        /\ pipe[i].out.kind = "Piped"
        /\ hist[i].wrote # <<>>)
         => ret.out = <<Head(hist[i].wrote)>>

C21_Witness ==
  /\ ret.op = "wait_with_output"
  /\ hist[ret.slot].waits = 1
  /\ proc[ret.slot].prog = "echo_stdin_char"
  /\ Returned_main(ret.slot)
  /\ Len(hist[ret.slot].wrote) = 2
  /\ ret.out = <<1>>
  /\ pipe[ret.slot].in.buf = <<2>>

\* The reads and writes made through the handles of a Child.
PipeOps == {"write", "write_stdout", "read_stdin", "read_stdout"}

\* C22: a read or write whose OS call fails (on an invalid or dropped handle,
\* or a write to the parent's read end of the child's piped stdout) returns
\* no value, and the call leaves the handles of the Child as they were.
C22_FailedIoAbsent ==
  [][(/\ ret' # ret
      /\ ret'.op \in PipeOps
      /\ ret'.failed
      /\ pc'.op = "idle")
       => (~ret'.ok /\ child' = child)]_vars

C22_Witness ==
  /\ ret.op = "write_stdout"
  /\ ret.failed
  /\ ~ret.ok
  /\ child[ret.slot].stdout_ # INVALID_PIPE
  /\ pipe[ret.slot].out.kind = "Piped"
  /\ proc[ret.slot].state = "running"

\* C29: read_all returns the number of bytes it left in out, and returns no
\* value only when an OS call failed, on both platforms.
C29_ReadAllCount ==
  ret.op = "read_all"
    => (/\ ret.ok => ret.code = Len(ret.out)
        /\ ~ret.ok => ret.failed)

\* C23: on a descriptor no environment call was made on, the mutable get_envs
\* returns a map holding the environment of the process (PATH is found with
\* its value) and leaves that map in the descriptor, while the const get_envs
\* returns an empty map (PATH is not found) and leaves the descriptor, its
\* absent environment included, as it was.
C23_GetEnvs ==
  [][/\ (ret' # ret /\ ret'.op = "get_envs" /\ env_calls = <<>>)
          => (/\ ret'.out = ParentVars[<<"PATH">>]
              /\ ret'.out # <<>>
              /\ spell'.env_ = [has_value |-> TRUE, data_ |-> Env(TRUE)])
     /\ (ret' # ret /\ ret'.op = "get_envs_const" /\ env_calls = <<>>)
          => (/\ ret'.out = <<>>
              /\ spell' = spell
              /\ ~spell'.env_.has_value)]_vars

C23_Witness ==
  /\ ret.op = "get_envs_const"
  /\ ret.out = <<>>
  /\ env_calls = <<>>
  /\ ~spell.env_.has_value
  /\ spell.program_ = "print_env"

\* C24: on the fork platform, in every build, a child whose exec fails has
\* written the 4 bytes of the error code to the side channel when it
\* terminates.
C24_ExecFailureWritten ==
  [][\A i \in Slots :
       (/\ proc[i].state = "forked"
        /\ proc'[i].state = "zombie"
        /\ proc'[i].how = "exit")
         => Len(pipe'[i].side.buf) = 4]_vars

\* C25: over any sequence of launches, a process running the launched program
\* holds no handle but its three standard streams: none of the handles of an
\* earlier, still live Child, whatever its stream modes, and not the side
\* channel.  (Stated for Child objects of launches whose fork succeeded.)
C25_CloseOnSpawn ==
  \A j \in Slots :
    (/\ proc[j].state = "running"
     /\ \A i \in Slots : child[i] # NoChild => child[i].pid_ = i)
      => open[j] \subseteq {H(j, "fd0"), H(j, "fd1"), H(j, "fd2")}

\* The parent is blocked in wait on the first child, whose program is blocked
\* reading its piped stdin, while the second child, launched with a piped
\* stdin as well, is running and its Child holds its stdin.
C26_Waiting ==
  /\ pc.op = "wait"
  /\ pc.slot = 1
  /\ child[1].pid_ = 1
  /\ pipe[1].in.kind = "Piped"
  /\ proc[1].state = "running"
  /\ proc[1].need
  /\ pipe[2].in.kind = "Piped"
  /\ proc[2].state = "running"
  /\ child[2].stdin_ = H(2, "in.write")

\* C26: of two children launched one after the other with piped stdin, the
\* second never holds the write end of the first one's stdin, and wait on the
\* first returns (its program having read end-of-stream) while the second is
\* still running.
C26_FirstChildSeesEof ==
  /\ [](\A i, j \in Slots :
          (i # j /\ pipe[i].in.kind = "Piped" /\ proc[j].state = "running")
            => H(i, "in.write") \notin open[j])
  /\ C26_Waiting ~> (/\ ret.op = "wait"
                     /\ ret.slot = 1
                     /\ proc[1].got = <<>>
                     /\ proc[2].state = "running")

C26_Witness ==
  /\ ret.op = "wait"
  /\ ret.slot = 1
  /\ pc.op = "idle"
  /\ Returned_main(1)
  /\ proc[1].got = <<>>
  /\ pipe[1].in.kind = "Piped"
  /\ pipe[2].in.kind = "Piped"
  /\ proc[2].state = "running"
  /\ proc[2].need
  /\ child[2].stdin_ = H(2, "in.write")

\* C27: when a launch has returned, the handles it created that are open in
\* the parent are exactly the three ends owned by the Child it returned (the
\* child's ends and both ends of the side channel are closed); when it
\* reported failure, or returned its result after destroying its Child, none
\* of the handles it created is open in the parent.
C27_HandleAccounting ==
  (ret.op \in Entries /\ pc.op = "idle")
    => LET mine == {h \in open[0] : SlotOf(h) = ret.slot}
       IN  IF ret.op = "cast" /\ ret.ok
             THEN mine = ParentSide(ret.slot)
             ELSE mine = {}

C27_Witness ==
  /\ ret.op = "cast"
  /\ ret.ok
  /\ pc.op = "idle"
  /\ proc[ret.slot].state = "running"
  /\ {h \in open[0] : SlotOf(h) = ret.slot} = ParentSide(ret.slot)
  /\ child[ret.slot].stdout_ = H(ret.slot, "out.read")

\* The live objects holding handle h.
Owners(h) == {o \in 1..MaxObjs : objs.obj[o].state = "live" /\ objs.obj[o].inner_ = h}

\* C28: over any sequence of move constructions, move assignments, takes,
\* drops and destructions, every OS handle is either owned by exactly one
\* live object and not closed, closed exactly once and owned by none (a
\* handle an assignment overwrote included), or was returned by take and is
\* neither owned nor closed by any object.
C28_ClosedExactlyOnce ==
  \A h \in 1..MaxHandles :
    IF h \in objs.taken
      THEN objs.closes[h] = 0 /\ Owners(h) = {}
      ELSE objs.closes[h] + Cardinality(Owners(h)) = 1

\* Every object was destroyed: handle 1 was closed exactly once, and handle
\* 2, which take returned, was not closed.
C28_Witness ==
  /\ \A o \in 1..MaxObjs : objs.obj[o].state = "dead"
  /\ objs.closes[1] = 1
  /\ objs.taken = {2}
  /\ objs.closes[2] = 0

\* C30: write_all always terminates: for every sequence of results of the OS
\* writes, a write that accepts zero bytes included, every call returns.
C30_WriteAllTerminates == (objs.call.op = "write_all") ~> (objs.call.op = "idle")

\* C31: when the first two waits on the Child of a process that ran its
\* program to the return are both wait_with_output, the second returns the exit status of the first and
\* empty stdout_ and stderr_.
C31_WaitWithOutputTwice ==
  [][\A i \in Slots :
       (/\ ret.op = "wait_with_output"
        /\ ret.slot = i
        /\ child[i].pid_ = i
        /\ Returned_main(i)
        /\ hist[i].waits = 1
        /\ hist'[i].waits = 2
        /\ ret'.op = "wait_with_output")
         => (/\ ret'.code = ret.code
             /\ ret'.out = <<>>
             /\ ret'.err = <<>>)]_vars

\* C32: whenever cast has returned a Child for a process it created, that
\* process has completed its exec and started the requested program; no Child
\* is returned for a child whose exec failed.
C32_ChildOnlyAfterExec ==
  (/\ ret.op = "cast"
   /\ ret.ok
   /\ child[ret.slot] # NoChild
   /\ child[ret.slot].pid_ = ret.slot)
    => (/\ proc[ret.slot].state \in {"running", "zombie", "reaped"}
        /\ Exists(proc[ret.slot].prog))

\* The text before the first '=' of a KEY=VALUE buffer, and the text after it.
BeforeEq(data) == SubSeq(data, 1, Find(data, "="))

AfterEq(data) == SubSeq(data, Find(data, "=") + 2, Len(data))

\* C33: after any sequence of operations on the Environment Map, set with an
\* arbitrary key included, the key of every variable is the text before the
\* first '=' of its buffer and its value the text after it, and no two
\* variables have the same key.
C33_EnvMapInvariant ==
  spell.env_.has_value =>
    /\ \A v \in spell.env_.data_ :
         /\ Env_Var_key(v) = BeforeEq(unwrap(v))
         /\ Env_Var_value(v) = AfterEq(unwrap(v))
    /\ \A v, w \in spell.env_.data_ :
         v # w => BeforeEq(unwrap(v)) # BeforeEq(unwrap(w))

\* The names without a '='.
PlainKeys == {k \in EnvKeys : \A n \in 1..Len(k) : k[n] # "="}

\* The variables of a map whose key is none of K.
Others(data, K) == {v \in data : Env_Var_key(v) \notin K}

\* C34: rename (old, new) leaves the map unchanged when old is absent; when
\* old is present and differs from new, afterwards get (new) returns the value
\* old had and old is absent, whether or not a variable named new existed,
\* and all other variables are unchanged.
C34_Rename ==
  [][\A old, new \in PlainKeys :
       env_calls' = Append(env_calls, EnvCall("rename", old, new))
         => LET b == Materialized(spell.env_, TRUE).data_
                a == spell'.env_.data_
            IN  IF Env_find(b, old) = {}
                  THEN a = b
                  ELSE old # new =>
                         /\ Env_get(a, new) = Env_get(b, old)
                         /\ Env_find(a, old) = {}
                         /\ Others(a, {old, new}) = Others(b, {old, new})]_vars

\* C35: across any number of launches with Null streams, first calls racing
\* on two threads included, the null device is opened once and one exit-time
\* close is registered; the duplicates create_null returns are fresh, and
\* closing them leaves the shared handle open until the process exits.
C35_NullDeviceOnce ==
  /\ statics.opens <= 1
  /\ statics.atexit <= 1
  /\ (statics.made.null > 0 \/ \E t \in Threads : statics.at[t] = "dup")
       => /\ statics.opens = 1
          /\ statics.atexit = 1
          /\ statics.h \notin UNION {statics.held[t] : t \in Threads}
          /\ ~statics.exited => statics.h \in statics.fds
  /\ \A t, u \in Threads : t # u => statics.held[t] \cap statics.held[u] = {}

\* Both threads raced through their first create_null, each got its two
\* duplicates, and one thread closed both of its own.
C35_Witness ==
  /\ statics.made.null = 2
  /\ statics.made.inherit = 0
  /\ statics.held[1] = {}
  /\ Cardinality(statics.held[2]) = 2
  /\ statics.opens = 1
  /\ ~statics.exited

\* C36: the parent's own stdin, stdout and stderr stay open across launches
\* with Inherit followed by the closing of the per-launch duplicates.
C36_StdStreamsStayOpen == {0, 1, 2} \subseteq statics.fds

\* Streams were inherited on both threads and every duplicate was closed.
C36_Witness ==
  /\ statics.made.inherit >= 2
  /\ \A t \in Threads : statics.held[t] = {}
  /\ statics.fds = {0, 1, 2}

\* C37: when try_wait returned a status for a program that returned from
\* main, a wait that follows returns an Exit_Status with the same code.
C37_TryWaitAgreesWithWait ==
  [][\A i \in Slots :
       (/\ ret.op = "try_wait"
        /\ ret.ok
        /\ ret.slot = i
        /\ child[i].pid_ = i
        /\ Returned_main(i)
        /\ ret'.op \in {"wait", "wait_with_output"}
        /\ ret'.slot = i)
         => ret'.code = ret.code]_vars

\* C38: the Exit_Status wait returns for a child that was terminated by
\* kill does not report success.
C38_KilledNeverSucceeds ==
  (/\ ret.op \in {"wait", "wait_with_output"}
   /\ child[ret.slot] # NoChild
   /\ child[ret.slot].pid_ = ret.slot
   /\ proc[ret.slot].how = "signal")
    => ~success(Exit_Status(ret.code))

\* C39: once a launch has returned absent because the exec failed, the child
\* of that launch has been reaped: it is neither running nor a zombie.
C39_FailedLaunchReaped ==
  (/\ ret.op \in Entries
   /\ ~ret.ok
   /\ ~ret.threw
   /\ proc[ret.slot].state # "none"
   /\ ~Exists(proc[ret.slot].prog))
    => proc[ret.slot].state = "reaped"

\* C40: in from_string an empty quoted token does not end the parsing: for a
\* NUL-terminated line that starts with its first token, does not end in an
\* unescaped backslash and has an empty token after the first, every token
\* after the first is an argument, so the arguments are as many as those
\* tokens.
C40_EmptyTokenKeepsParsing ==
  LET tokens == RefTokens(command_line, <<>>, FALSE, "")
  IN  (/\ ret.op = "from_string"
       /\ Len(beyond) >= 1
       /\ beyond[1] = NUL
       /\ ~EndsWithBackslash(command_line)
       /\ command_line # <<>>
       /\ command_line[1] # " "
       /\ Len(tokens) >= 2
       /\ tokens[1] # <<>>
       /\ \E n \in 2..Len(tokens) : tokens[n] = <<>>)
        => (/\ ret.ok
            /\ Len(spell.args_) = Len(tokens) - 1
            /\ spell.args_ = Tail(tokens))

(***************************************************************************)
(* The specification under the scheduling the operating system provides:   *)
(* every process that can take a step eventually takes one, and a blocked  *)
(* system call returns once its condition holds.  A descriptor of one of   *)
(* two programs with its stdin configured is launched once.                *)
(***************************************************************************)
FairInit == Init /\ spell.program_ \in {"echo_stdin_char", "hello_world"}

FairBuild == \E cfg \in Stdio : set_stdin(cfg)

\* A step of the process of launch i that waits for no terminal input.
Scheduled(i) == ChildExec(i) \/ ProgRead(i) \/ ProgWrite(i) \/ ProgExit(i)

FairNext == FairBuild \/ Launch \/ Use \/ Run

FairSpec ==
  /\ FairInit
  /\ [][FairNext]_vars
  /\ \A i \in Slots : WF_vars(Scheduled(i))
  /\ WF_vars(CastRead)
  /\ WF_vars(WaitReturn)

====
